---- MODULE Spec2Model ----
(***************************************************************************)
(* A model of the core of NexusLearn's backend:                            *)
(*   - AgentDAG            (backend/optimizations/agent_dag.py)            *)
(*   - TokenBucket         (backend/optimizations/rate_limiter.py)         *)
(*   - RateLimiter         (backend/optimizations/rate_limiter.py)         *)
(*   - EmbeddingCache      (backend/optimizations/embedding_cache.py)      *)
(*   - VectorStoreService  (backend/services/vector_store.py)              *)
(* Each component has its own specification (SpecDAG, SpecTB, SpecRL,      *)
(* SpecEC, SpecVS); the variables of the other components stay at their    *)
(* initial values, except the clock, which the token bucket, the rate      *)
(* limiter and the cache all read.                                         *)
(***************************************************************************)
EXTENDS Integers, Sequences, FiniteSets, TLC

VARIABLES
    \* ---- AgentDAG ----
    nodes,          \* self.nodes: name -> [dependencies, executor]
    results,        \* self.results: name -> value | None
    errors,         \* self.errors: name -> exception
    completed,      \* execute(): completed
    context,        \* execute(): context (the caller's initial_context)
    tasks,          \* execute(): tasks of the current batch, name -> "running" | outcome
    agent_context,  \* the keyword context each launched executor was called with
    remaining,      \* the set the cycle error reports
    ret,            \* what execute() returned (the empty map before it returns)
    pc,             \* position of the caller: building, loop, gather, returned, raised, crashed
    started,        \* history: nodes whose executor has been invoked in this run
    outcome,        \* history: how each task of this run ended
    expired,        \* history: nodes whose timeout ran out with the executor going on
    adds,           \* history: number of add_agent calls made
    last_add,       \* history: the add_agent call just made, [name, dependencies, raised]
    rejected,       \* history: {name, dep} of the last registration refused as a two-node cycle
    \* ---- TokenBucket ----
    tokens,         \* self.tokens, in units of 1/Unit token
    last_refill,    \* self.last_refill
    lock,           \* self.lock: the task holding it, or "free"
    now,            \* time.time()
    tpc,            \* per task: idle, waiting (for the lock), sleeping
    targs,          \* per task: the call it is in, [op, tokens, blocking]
    wake,           \* per task: when its asyncio.sleep ends
    tret,           \* the last call that returned: its task, its request, its value
    granted,        \* history: the units handed out by all acquire() calls so far
    \* ---- RateLimiter ----
    global_buckets, \* self.global_buckets: bucket type -> bucket
    buckets,        \* self.buckets: bucket type -> (user id -> bucket)
    check_ret,      \* the last check() call: its arguments and how it ended
    checks,         \* history: number of check() calls made
    \* ---- EmbeddingCache ----
    cache,          \* self.cache: the OrderedDict as a list of [key, value], oldest first
    timestamps,     \* self.timestamps: key -> time of its last set
    hits,           \* self.hits
    misses,         \* self.misses
    get_ret,        \* what the last call returned when it was a get()
    recency,        \* history: the keys in the order of their last set or get hit
    \* ---- VectorStoreService ----
    indices,        \* self.indices: module_id -> the rows (vectors) of its index
    metadata,       \* self.metadata: module_id -> its list of records
    disk_index,     \* the <key>.faiss artifact of each module: absent, corrupt or rows
    disk_meta,      \* the <key>.json artifact of each module: absent, corrupt or records
    add_result,     \* how the last add_documents() ended: none, ok, raised
    add_module,     \* the module_id of that call
    add_exc,        \* the exception raised by the last call of the service when
                    \* it was add_documents(), else None
    failed_batch,   \* the batch whose embedding failed in that call, else 0
    okDocs,         \* history: per module, the texts passed to the add_documents()
                    \* calls of this process that returned normally
    fresh,          \* history: per module, no artifact existed when this process started
    restarts,       \* history: number of process restarts
    adding,         \* per task: the add_documents() call it is suspended in
    \* ---- AzureOpenAIService (embeddings) ----
    emb_pc,         \* the provider call the running request is about to make, or idle
    emb_op,         \* the running or last request: its method and its argument
    emb_i,          \* batch fallback loop: the position of the current text, else 0
    emb_results,    \* batch fallback loop: the local list results
    emb_calls,      \* history: the provider calls of that request and their responses
    emb_ret         \* how that request ended: pending, returned or raised

dagVars == <<nodes, results, errors, completed, context, tasks, agent_context,
             remaining, ret, pc, started, outcome, expired, adds, last_add, rejected>>

tbVars == <<tokens, last_refill, lock, now, tpc, targs, wake, tret, granted>>

vsVars == <<indices, metadata, disk_index, disk_meta, add_result, add_module,
            add_exc,
            failed_batch, okDocs, fresh, restarts, adding>>

rlVars == <<global_buckets, buckets, check_ret, checks>>

ecVars == <<cache, timestamps, hits, misses, get_ret, recency>>

aoVars == <<emb_pc, emb_op, emb_i, emb_results, emb_calls, emb_ret>>

vars == <<dagVars, tbVars, vsVars, rlVars, ecVars, aoVars>>

notDAG == <<tbVars, vsVars, rlVars, ecVars, aoVars>>
notTB == <<dagVars, vsVars, rlVars, ecVars, aoVars>>
notVS == <<dagVars, tbVars, rlVars, ecVars, aoVars>>
\* The rate limiter reads the clock of the token bucket section.
notRL == <<dagVars, vsVars, ecVars, aoVars, tokens, last_refill, lock, tpc,
           targs, wake, tret, granted>>
\* So does the embedding cache.
notEC == <<dagVars, vsVars, rlVars, aoVars, tokens, last_refill, lock, tpc,
           targs, wake, tret, granted>>
notAO == <<dagVars, tbVars, vsVars, rlVars, ecVars>>

(***************************************************************************)
(* AgentDAG                                                                *)
(***************************************************************************)
Names == {"A", "B", "C"}
Values == {"v1", "v2"}
None == "None"
Excs == {"Exception", "TimeoutError"}
NoMap == [k \in {} |-> None]

\* The number of add_agent calls a caller makes before execute().
MaxAdds == 3

\* How calling node.executor(**agent_context) behaves: an async function
\* returns a coroutine; a callable that raises when invoked (a plain function
\* that raises, a signature that does not accept the keywords) raises there.
Executors == {"async", "raises_on_call"}

\* The executors of the runs that look at timeouts. An "uncancellable"
\* executor is an async function whose coroutine asyncio.wait_for cannot cut
\* off: it runs without yielding to the event loop (a blocking call), or it
\* catches the CancelledError and carries on.
TimeoutExecutors == {"async", "uncancellable"}

\* The initial_context values a caller passes (None, a key of its own, a key
\* that is also a node name).
InitialContexts ==
    {NoMap, [k \in {"q"} |-> "x"], [k \in {"A"} |-> "x"]}

Put(f, k, v) == [x \in DOMAIN f \cup {k} |-> IF x = k THEN v ELSE f[x]]

AgentNode(dependencies, executor) ==
    [dependencies |-> dependencies, executor |-> executor]

\* No add_agent call made yet, or execute() called since.
NoAdd == [name |-> None, dependencies |-> {}, raised |-> FALSE]

AddCall(name, dependencies, raised) ==
    [name |-> name, dependencies |-> dependencies, raised |-> raised]

InitDAG ==
    /\ nodes = NoMap
    /\ results = NoMap
    /\ errors = NoMap
    /\ completed = {}
    /\ context = NoMap
    /\ tasks = NoMap
    /\ agent_context = NoMap
    /\ remaining = {}
    /\ ret = NoMap
    /\ pc = "building"
    /\ started = {}
    /\ outcome = NoMap
    /\ expired = {}
    /\ adds = 0
    /\ last_add = NoAdd
    /\ rejected = {}

\* add_agent without the check of lines 73-76.
AddAgentUnchecked(name, dependencies, executor) ==
    /\ pc = "building"
    /\ adds < MaxAdds
    /\ adds' = adds + 1
    /\ IF name \in dependencies
       THEN /\ UNCHANGED nodes
            /\ last_add' = AddCall(name, dependencies, TRUE)
       ELSE /\ nodes' = Put(nodes, name, AgentNode(dependencies, executor))
            /\ last_add' = AddCall(name, dependencies, FALSE)
    /\ UNCHANGED <<results, errors, completed, context, tasks, agent_context,
                   remaining, ret, pc, started, outcome, expired, rejected>>
    /\ UNCHANGED notDAG

\* add_agent that inserts the node before it looks for a two-node cycle.
AddAgentInsertFirst(name, dependencies, executor) ==
    /\ pc = "building"
    /\ adds < MaxAdds
    /\ adds' = adds + 1
    /\ IF name \in dependencies
       THEN /\ UNCHANGED <<nodes, rejected>>
            /\ last_add' = AddCall(name, dependencies, TRUE)
       ELSE /\ nodes' = Put(nodes, name, AgentNode(dependencies, executor))
            /\ IF \E dep \in dependencies :
                     dep \in DOMAIN nodes /\ name \in nodes[dep].dependencies
               THEN /\ rejected' =
                         {name} \cup {dep \in dependencies :
                             dep \in DOMAIN nodes /\ name \in nodes[dep].dependencies}
                    /\ last_add' = AddCall(name, dependencies, TRUE)
               ELSE /\ last_add' = AddCall(name, dependencies, FALSE)
                    /\ UNCHANGED rejected
    /\ UNCHANGED <<results, errors, completed, context, tasks, agent_context,
                   remaining, ret, pc, started, outcome, expired>>
    /\ UNCHANGED notDAG

\* add_agent: the self-dependency check, the two-node check, the insertion.
AddAgent(name, dependencies, executor) ==
    /\ pc = "building"
    /\ adds < MaxAdds
    /\ adds' = adds + 1
    /\ IF name \in dependencies
       THEN /\ UNCHANGED <<nodes, rejected>>
            /\ last_add' = AddCall(name, dependencies, TRUE)
       ELSE IF \E dep \in dependencies :
                  dep \in DOMAIN nodes /\ name \in nodes[dep].dependencies
            THEN /\ UNCHANGED nodes
                 /\ rejected' =
                      {name} \cup {dep \in dependencies :
                          dep \in DOMAIN nodes /\ name \in nodes[dep].dependencies}
                 /\ last_add' = AddCall(name, dependencies, TRUE)
            ELSE /\ nodes' = Put(nodes, name, AgentNode(dependencies, executor))
                 /\ last_add' = AddCall(name, dependencies, FALSE)
                 /\ UNCHANGED rejected
    /\ UNCHANGED <<results, errors, completed, context, tasks, agent_context,
                   remaining, ret, pc, started, outcome, expired>>
    /\ UNCHANGED notDAG

\* _get_ready_agents that forgets the dependency test.
GetReadyAgentsAnyDeps(done) ==
    {name \in DOMAIN nodes : name \notin done}

\* _get_ready_agents
GetReadyAgents(done) ==
    {name \in DOMAIN nodes :
        name \notin done /\ nodes[name].dependencies \subseteq done}

\* A context built from all prior results instead of the dependencies'.
BuildContextAllResults(name) ==
    [k \in DOMAIN context \cup DOMAIN results |->
        IF k \in DOMAIN results THEN results[k] ELSE context[k]]

\* execute(), lines 131-134: the context built for one node.
BuildContext(name) ==
    LET deps == {dep \in nodes[name].dependencies : dep \in DOMAIN results}
    IN  [k \in DOMAIN context \cup deps |->
            IF k \in deps THEN results[k] ELSE context[k]]

\* execute() up to the loop: the empty graph returns {}, else the run state
\* is reset.
Execute(initial_context) ==
    /\ pc = "building"
    /\ IF DOMAIN nodes = {}
       THEN /\ pc' = "returned"
            /\ ret' = NoMap
            /\ UNCHANGED <<context, completed, results, errors>>
       ELSE /\ pc' = "loop"
            /\ context' = initial_context
            /\ completed' = {}
            /\ results' = NoMap
            /\ errors' = NoMap
            /\ UNCHANGED ret
    /\ last_add' = NoAdd
    /\ UNCHANGED <<nodes, tasks, agent_context, remaining, started, outcome, expired,
                   adds, rejected>>
    /\ UNCHANGED notDAG

\* The loop head with every node completed: return self.results.
Return ==
    /\ pc = "loop"
    /\ Cardinality(completed) >= Cardinality(DOMAIN nodes)
    /\ pc' = "returned"
    /\ ret' = results
    /\ UNCHANGED <<nodes, results, errors, completed, context, tasks,
                   agent_context, remaining, started, outcome, expired, adds,
                   rejected,
                   last_add>>
    /\ UNCHANGED notDAG

\* The loop head with no ready node: the RuntimeError.
RaiseCycle ==
    /\ pc = "loop"
    /\ Cardinality(completed) < Cardinality(DOMAIN nodes)
    /\ GetReadyAgents(completed) = {}
    /\ pc' = "raised"
    /\ remaining' = DOMAIN nodes \ completed
    /\ UNCHANGED <<nodes, results, errors, completed, context, tasks,
                   agent_context, ret, started, outcome, expired, adds,
                   rejected,
                   last_add>>
    /\ UNCHANGED notDAG

\* Lines 126-143 with every executor of the batch returning a coroutine: one
\* task per ready node.
Launch ==
    /\ pc = "loop"
    /\ Cardinality(completed) < Cardinality(DOMAIN nodes)
    /\ LET ready == GetReadyAgents(completed)
       IN  /\ ready # {}
           /\ \A name \in ready : nodes[name].executor # "raises_on_call"
           /\ tasks' = [name \in ready |-> "running"]
           /\ agent_context' =
                [name \in DOMAIN agent_context \cup ready |->
                    IF name \in ready THEN BuildContext(name)
                    ELSE agent_context[name]]
           /\ started' = started \cup ready
    /\ pc' = "gather"
    /\ UNCHANGED <<nodes, results, errors, completed, context, remaining, ret,
                   outcome, expired, adds, rejected,
                   last_add>>
    /\ UNCHANGED notDAG

\* Lines 126-143 when node.executor(**agent_context) raises for some ready
\* node: the exception leaves execute(). The set is iterated in an arbitrary
\* order, so any part of the other ready nodes already has a task, which keeps
\* running with nobody waiting for it.
LaunchCrash ==
    /\ pc = "loop"
    /\ Cardinality(completed) < Cardinality(DOMAIN nodes)
    /\ LET ready == GetReadyAgents(completed)
       IN  \E name \in ready :
             /\ nodes[name].executor = "raises_on_call"
             /\ \E before \in SUBSET {n \in ready :
                                           nodes[n].executor # "raises_on_call"} :
                  /\ tasks' = [n \in before |-> "running"]
                  /\ agent_context' =
                       [n \in DOMAIN agent_context \cup before \cup {name} |->
                           IF n \in before \cup {name} THEN BuildContext(n)
                           ELSE agent_context[n]]
                  /\ started' = started \cup before \cup {name}
    /\ pc' = "crashed"
    /\ UNCHANGED <<nodes, results, errors, completed, context, remaining, ret,
                   outcome, expired, adds, rejected,
                   last_add>>
    /\ UNCHANGED notDAG

\* node.timeout runs out for a task whose coroutine asyncio.wait_for cannot
\* cut off: the task goes on until the coroutine ends by itself.
TimeoutExpires(name) ==
    /\ pc \in {"gather", "crashed"}
    /\ name \in DOMAIN tasks
    /\ tasks[name] = "running"
    /\ nodes[name].executor = "uncancellable"
    /\ name \notin expired
    /\ expired' = expired \cup {name}
    /\ UNCHANGED <<nodes, results, errors, completed, context, tasks,
                   agent_context, remaining, ret, pc, started, outcome, adds,
                   rejected,
                   last_add>>
    /\ UNCHANGED notDAG

\* One task of the batch ends: the coroutine returns a value, raises, or
\* asyncio.wait_for cuts it off at node.timeout (TimeoutError), which it can
\* do only to a coroutine that is suspended and lets the cancellation through.
TaskFinish(name, how) ==
    /\ pc \in {"gather", "crashed"}
    /\ name \in DOMAIN tasks
    /\ tasks[name] = "running"
    /\ how = "TimeoutError" => nodes[name].executor = "async"
    /\ tasks' = [tasks EXCEPT ![name] = how]
    /\ outcome' = Put(outcome, name, how)
    /\ UNCHANGED <<nodes, results, errors, completed, context, agent_context,
                   remaining, ret, pc, started, expired, adds, rejected,
                   last_add>>
    /\ UNCHANGED notDAG

\* Result processing that marks only the successful nodes completed and
\* stores no result for a failed one.
ProcessResultsSkipFailed ==
    /\ pc = "gather"
    /\ \A name \in DOMAIN tasks : tasks[name] # "running"
    /\ results' = [name \in DOMAIN results \cup
                            {n \in DOMAIN tasks : tasks[n] \notin Excs} |->
                      IF name \in DOMAIN tasks THEN tasks[name] ELSE results[name]]
    /\ errors' = [name \in DOMAIN errors \cup
                           {n \in DOMAIN tasks : tasks[n] \in Excs} |->
                      IF name \in DOMAIN tasks THEN tasks[name] ELSE errors[name]]
    /\ completed' = completed \cup {n \in DOMAIN tasks : tasks[n] \notin Excs}
    /\ pc' = "loop"
    /\ UNCHANGED <<nodes, context, tasks, agent_context, remaining, ret,
                   started, outcome, expired, adds, rejected,
                   last_add>>
    /\ UNCHANGED notDAG

\* Result processing that goes on as soon as one task of the batch has ended
\* and marks the ended ones completed.
ProcessResultsFirstDone ==
    LET done == {n \in DOMAIN tasks : tasks[n] # "running"}
    IN  /\ pc = "gather"
        /\ done # {}
        /\ results' = [name \in DOMAIN results \cup done |->
                          IF name \in done
                          THEN (IF tasks[name] \in Excs THEN None ELSE tasks[name])
                          ELSE results[name]]
        /\ errors' = [name \in DOMAIN errors \cup
                               {n \in done : tasks[n] \in Excs} |->
                          IF name \in done THEN tasks[name] ELSE errors[name]]
        /\ completed' = completed \cup done
        /\ pc' = "loop"
        /\ UNCHANGED <<nodes, context, tasks, agent_context, remaining, ret,
                       started, outcome, expired, adds, rejected,
                       last_add>>
        /\ UNCHANGED notDAG

\* Lines 146-159: gather returns once every task has ended; the results are
\* processed and the whole batch is marked completed.
ProcessResults ==
    /\ pc = "gather"
    /\ \A name \in DOMAIN tasks : tasks[name] # "running"
    /\ results' = [name \in DOMAIN results \cup DOMAIN tasks |->
                      IF name \in DOMAIN tasks
                      THEN (IF tasks[name] \in Excs THEN None ELSE tasks[name])
                      ELSE results[name]]
    /\ errors' = [name \in DOMAIN errors \cup
                           {n \in DOMAIN tasks : tasks[n] \in Excs} |->
                      IF name \in DOMAIN tasks THEN tasks[name] ELSE errors[name]]
    /\ completed' = completed \cup DOMAIN tasks
    /\ pc' = "loop"
    /\ UNCHANGED <<nodes, context, tasks, agent_context, remaining, ret,
                   started, outcome, expired, adds, rejected,
                   last_add>>
    /\ UNCHANGED notDAG

NextDAG ==
    \/ \E name \in Names, dependencies \in SUBSET Names, executor \in Executors :
          AddAgent(name, dependencies, executor)
    \/ \E initial_context \in InitialContexts : Execute(initial_context)
    \/ Return
    \/ RaiseCycle
    \/ Launch
    \/ LaunchCrash
    \/ \E name \in Names, how \in Values \cup Excs : TaskFinish(name, how)
    \/ ProcessResults

\* Runs over executors that all return a coroutine, with the timeouts of
\* coroutines that cannot be cut off.
NextDAGTimeout ==
    \/ \E name \in Names, dependencies \in SUBSET Names,
          executor \in TimeoutExecutors :
          AddAgent(name, dependencies, executor)
    \/ \E initial_context \in InitialContexts : Execute(initial_context)
    \/ Return
    \/ RaiseCycle
    \/ Launch
    \/ \E name \in Names : TimeoutExpires(name)
    \/ \E name \in Names, how \in Values \cup Excs : TaskFinish(name, how)
    \/ ProcessResults

(***************************************************************************)
(* TokenBucket                                                             *)
(***************************************************************************)
Tasks == {"t1", "t2"}

\* The balance is kept in units of 1/Unit token, so that it takes fractional
\* values as the float self.tokens does.
Unit == 2
\* TokenBucket(capacity, refill_rate): tokens, and units refilled per tick.
Capacity == 2
RefillRate == 1
\* The largest number of tokens one call asks for (more than the capacity).
MaxRequest == 3
\* The clock runs from 0 to MaxTime.
MaxTime == 5

CapUnits == Capacity * Unit

Min(a, b) == IF a <= b THEN a ELSE b

CeilDiv(a, b) == (a + b - 1) \div b

NoCall == [op |-> "none", tokens |-> 0, blocking |-> FALSE]
NoReturn == [task |-> "none", kind |-> "none", tokens |-> 0, val |-> 0]
\* acquire(n, ...) of task t returned b.
Bool(t, n, b) ==
    [task |-> t, kind |-> "bool", tokens |-> n, val |-> IF b THEN 1 ELSE 0]
\* wait_for_tokens(n) of task t returned a wait time of units / RefillRate
\* ticks.
WaitTime(t, n, units) == [task |-> t, kind |-> "wait", tokens |-> n, val |-> units]
\* get_stats() reported a balance of units.
Stats(units) == [task |-> "none", kind |-> "stats", tokens |-> 0, val |-> units]

InitTB ==
    /\ tokens = CapUnits
    /\ last_refill = 0
    /\ lock = "free"
    /\ now = 0
    /\ tpc = [t \in Tasks |-> "idle"]
    /\ targs = [t \in Tasks |-> NoCall]
    /\ wake = [t \in Tasks |-> 0]
    /\ tret = NoReturn
    /\ granted = 0

\* A refill that forgets the cap.
RefillUncapped(tok, last, time) == tok + (time - last) * RefillRate

\* Lines 63-68 (and 99-104, 116-118): the balance after the refill.
Refill(tok, last, time) ==
    Min(CapUnits, tok + (time - last) * RefillRate)

\* acquire that tests the request against the balance before the refill.
AcquireBodyStale(t, n, blocking) ==
    LET refilled == Refill(tokens, last_refill, now)
    IN  /\ last_refill' = now
        /\ IF tokens >= n * Unit
           THEN /\ tokens' = refilled - n * Unit
                /\ granted' = granted + n * Unit
                /\ tret' = Bool(t, n, TRUE)
           ELSE /\ tokens' = refilled
                /\ tret' = Bool(t, n, FALSE)
                /\ UNCHANGED granted
        /\ tpc' = [tpc EXCEPT ![t] = "idle"]
        /\ targs' = [targs EXCEPT ![t] = NoCall]
        /\ wake' = [wake EXCEPT ![t] = 0]
        /\ UNCHANGED <<lock, now>>

\* acquire that refills without moving last_refill to now, so that the same
\* span of time is credited again by the next call.
AcquireBodyNoStamp(t, n, blocking) ==
    LET refilled == Refill(tokens, last_refill, now)
    IN  /\ IF refilled >= n * Unit
           THEN /\ tokens' = refilled - n * Unit
                /\ granted' = granted + n * Unit
                /\ tret' = Bool(t, n, TRUE)
           ELSE /\ tokens' = refilled
                /\ tret' = Bool(t, n, FALSE)
                /\ UNCHANGED granted
        /\ tpc' = [tpc EXCEPT ![t] = "idle"]
        /\ targs' = [targs EXCEPT ![t] = NoCall]
        /\ wake' = [wake EXCEPT ![t] = 0]
        /\ UNCHANGED <<last_refill, lock, now>>

\* acquire that goes by the capacity alone and never looks at the balance.
AcquireBodyByCapacity(t, n, blocking) ==
    LET refilled == Refill(tokens, last_refill, now)
    IN  /\ last_refill' = now
        /\ IF n * Unit <= CapUnits
           THEN /\ tokens' = IF refilled >= n * Unit THEN refilled - n * Unit ELSE 0
                /\ granted' = granted + n * Unit
                /\ tret' = Bool(t, n, TRUE)
           ELSE /\ tokens' = refilled
                /\ tret' = Bool(t, n, FALSE)
                /\ UNCHANGED granted
        /\ tpc' = [tpc EXCEPT ![t] = "idle"]
        /\ targs' = [targs EXCEPT ![t] = NoCall]
        /\ wake' = [wake EXCEPT ![t] = 0]
        /\ UNCHANGED <<lock, now>>

\* Lines 63-86, run with the lock held: refill, then consume, or sleep with
\* the lock still held (blocking), or give up.
AcquireBody(t, n, blocking) ==
    LET refilled == Refill(tokens, last_refill, now)
    IN  /\ last_refill' = now
        /\ IF refilled >= n * Unit
           THEN /\ tokens' = refilled - n * Unit
                /\ tret' = Bool(t, n, TRUE)
                /\ tpc' = [tpc EXCEPT ![t] = "idle"]
                /\ targs' = [targs EXCEPT ![t] = NoCall]
                /\ wake' = [wake EXCEPT ![t] = 0]
                /\ granted' = granted + n * Unit
                /\ UNCHANGED lock
           ELSE IF blocking
           THEN /\ tokens' = refilled
                /\ lock' = t
                /\ wake' = [wake EXCEPT ![t] =
                               now + CeilDiv(n * Unit - refilled, RefillRate)]
                /\ tpc' = [tpc EXCEPT ![t] = "sleeping"]
                /\ targs' = [targs EXCEPT ![t] =
                               [op |-> "acquire", tokens |-> n, blocking |-> TRUE]]
                /\ UNCHANGED <<tret, granted>>
           ELSE /\ tokens' = refilled
                /\ tret' = Bool(t, n, FALSE)
                /\ tpc' = [tpc EXCEPT ![t] = "idle"]
                /\ targs' = [targs EXCEPT ![t] = NoCall]
                /\ wake' = [wake EXCEPT ![t] = 0]
                /\ UNCHANGED <<lock, granted>>
        /\ UNCHANGED now

\* wait_for_tokens that stores the balance it computes.
WaitForTokensBodyRefills(t, n) ==
    LET available == Refill(tokens, last_refill, now)
    IN  /\ tret' = IF available >= n * Unit THEN WaitTime(t, n, 0)
                   ELSE WaitTime(t, n, n * Unit - available)
        /\ tokens' = available
        /\ last_refill' = now
        /\ UNCHANGED <<lock, now, tpc, targs, wake, granted>>

\* Lines 99-112, run with the lock held.
WaitForTokensBody(t, n) ==
    LET available == Refill(tokens, last_refill, now)
    IN  /\ tret' = IF available >= n * Unit THEN WaitTime(t, n, 0)
                   ELSE WaitTime(t, n, n * Unit - available)
        /\ UNCHANGED <<tokens, last_refill, lock, now, tpc, targs, wake, granted>>

\* "async with self.lock" with the lock held by a task: the caller is
\* suspended until the lock is released. The only task that holds the lock
\* while others run is one that sleeps in lines 78-83, and it leaves the
\* "async with" block only when its own inner acquire() returns.
WaitForLock(t, op, n, blocking) ==
    /\ tpc' = [tpc EXCEPT ![t] = "waiting"]
    /\ targs' = [targs EXCEPT ![t] = [op |-> op, tokens |-> n, blocking |-> blocking]]
    /\ wake' = [wake EXCEPT ![t] = 0]
    /\ UNCHANGED <<tokens, last_refill, lock, now, tret, granted>>

\* acquire(n, blocking): with the lock free the body runs up to its return or
\* its sleep without any other task running.
Acquire(t, n, blocking) ==
    /\ tpc[t] = "idle"
    /\ IF lock = "free" THEN AcquireBody(t, n, blocking)
       ELSE WaitForLock(t, "acquire", n, blocking)
    /\ UNCHANGED notTB

\* wait_for_tokens(n)
WaitForTokens(t, n) ==
    /\ tpc[t] = "idle"
    /\ IF lock = "free" THEN WaitForTokensBody(t, n)
       ELSE WaitForLock(t, "wait_for_tokens", n, FALSE)
    /\ UNCHANGED notTB

\* Lines 81-83: the sleep ends and the task, still inside "async with
\* self.lock", calls self.acquire(tokens, blocking=False).
Wake(t) ==
    /\ tpc[t] = "sleeping"
    /\ now >= wake[t]
    /\ IF lock = "free" THEN AcquireBody(t, targs[t].tokens, FALSE)
       ELSE WaitForLock(t, "acquire", targs[t].tokens, FALSE)
    /\ UNCHANGED notTB

\* get_stats(): no lock, no assignment to the bucket.
GetStats ==
    /\ tret' = Stats(Min(CapUnits, tokens + (now - last_refill) * RefillRate))
    /\ UNCHANGED <<tokens, last_refill, lock, now, tpc, targs, wake, granted>>
    /\ UNCHANGED notTB

\* time.time() advances.
Tick ==
    /\ now < MaxTime
    /\ now' = now + 1
    /\ UNCHANGED <<tokens, last_refill, lock, tpc, targs, wake, tret, granted>>
    /\ UNCHANGED notTB

NextTB ==
    \/ \E t \in Tasks, n \in 1..MaxRequest, blocking \in BOOLEAN :
          Acquire(t, n, blocking)
    \/ \E t \in Tasks, n \in 1..MaxRequest : WaitForTokens(t, n)
    \/ \E t \in Tasks : Wake(t)
    \/ GetStats
    \/ Tick

(***************************************************************************)
(* RateLimiter                                                             *)
(***************************************************************************)
BucketTypes == {"api", "llm"}
UserIds == {"u1", "u2"}
\* The users given a bucket of their own by add_user_bucket.
ConfiguredUsers == {"u1"}

\* The parameters of the buckets the callers add, in whole tokens and tokens
\* per tick; a check() asks for up to the capacity of a global bucket.
RLCapacity == 2
RLUserCapacity == 1
RLRefillRate == 1
RLMaxRequest == RLCapacity
\* The number of check() calls, and how far the clock runs meanwhile.
MaxChecks == 2
RLMaxTime == 1

\* The parameters of an auto-created bucket.
DefaultCapacity == 100
DefaultRefillRate == 10

\* TokenBucket(capacity, refill_rate), created at the given time. locked: a
\* blocking acquire went to sleep inside "async with self.lock" and holds the
\* lock from then on.
TokenBucket(capacity, refill_rate, time) ==
    [capacity |-> capacity, refill_rate |-> refill_rate, tokens |-> capacity,
     last_refill |-> time, locked |-> FALSE]

\* TokenBucket.acquire on one bucket of the limiter: the bucket afterwards and
\* how the call ends. A call that finds the lock held, or that goes to sleep
\* holding it, does not return.
BucketAcquire(b, n, blocking, time) ==
    LET refilled == Min(b.capacity,
                        b.tokens + (time - b.last_refill) * b.refill_rate)
        after == [b EXCEPT !.tokens = refilled, !.last_refill = time]
    IN  IF b.locked THEN [bucket |-> b, result |-> "hangs"]
        ELSE IF refilled >= n
        THEN [bucket |-> [after EXCEPT !.tokens = refilled - n], result |-> "True"]
        ELSE IF blocking
        THEN [bucket |-> [after EXCEPT !.locked = TRUE], result |-> "hangs"]
        ELSE [bucket |-> after, result |-> "False"]

NoCheck ==
    [bucket_type |-> None, user_id |-> None, tokens |-> 0, blocking |-> FALSE,
     result |-> None]

CheckCall(bucket_type, user_id, n, blocking, result) ==
    [bucket_type |-> bucket_type, user_id |-> user_id, tokens |-> n,
     blocking |-> blocking, result |-> result]

InitRL ==
    /\ global_buckets = NoMap
    /\ buckets = NoMap
    /\ check_ret = NoCheck
    /\ checks = 0

\* add_global_bucket, called while the limiter is set up.
AddGlobalBucket(name, capacity, refill_rate) ==
    /\ checks = 0 /\ now = 0
    /\ global_buckets' = Put(global_buckets, name,
                             TokenBucket(capacity, refill_rate, now))
    /\ UNCHANGED <<buckets, check_ret, checks, now>>
    /\ UNCHANGED notRL

\* add_user_bucket, called while the limiter is set up.
AddUserBucket(bucket_type, user_id, capacity, refill_rate) ==
    /\ checks = 0 /\ now = 0
    /\ LET users == IF bucket_type \in DOMAIN buckets THEN buckets[bucket_type]
                    ELSE NoMap
       IN  buckets' = Put(buckets, bucket_type,
                          Put(users, user_id,
                              TokenBucket(capacity, refill_rate, now)))
    /\ UNCHANGED <<global_buckets, check_ret, checks, now>>
    /\ UNCHANGED notRL

\* check that goes on to the caller's bucket whatever the global bucket said.
CheckNoShortCircuit(bucket_type, user_id, n, blocking) ==
    /\ checks < MaxChecks
    /\ checks' = checks + 1
    /\ LET hasGlobal == bucket_type \in DOMAIN global_buckets
           g == IF hasGlobal
                THEN BucketAcquire(global_buckets[bucket_type], n, blocking, now)
                ELSE [bucket |-> NoCheck, result |-> "True"]
       IN  /\ global_buckets' =
                 IF hasGlobal
                 THEN [global_buckets EXCEPT ![bucket_type] = g.bucket]
                 ELSE global_buckets
           /\ IF user_id # None /\ bucket_type \in DOMAIN buckets
              THEN LET users == buckets[bucket_type]
                       ub == IF user_id \in DOMAIN users THEN users[user_id]
                             ELSE TokenBucket(DefaultCapacity, DefaultRefillRate,
                                              now)
                       u == BucketAcquire(ub, n, blocking, now)
                   IN  /\ buckets' = [buckets EXCEPT ![bucket_type] =
                                          Put(users, user_id, u.bucket)]
                       /\ check_ret' =
                            CheckCall(bucket_type, user_id, n, blocking,
                                      IF g.result # "True" THEN g.result
                                      ELSE u.result)
              ELSE /\ check_ret' =
                        CheckCall(bucket_type, user_id, n, blocking, g.result)
                   /\ UNCHANGED buckets
    /\ UNCHANGED now
    /\ UNCHANGED notRL

\* check(bucket_type, user_id, tokens, blocking); user_id None is the default.
\* With the locks free the call runs to its return without another task in
\* between.
Check(bucket_type, user_id, n, blocking) ==
    /\ checks < MaxChecks
    /\ checks' = checks + 1
    /\ LET hasGlobal == bucket_type \in DOMAIN global_buckets
           g == IF hasGlobal
                THEN BucketAcquire(global_buckets[bucket_type], n, blocking, now)
                ELSE [bucket |-> NoCheck, result |-> "True"]
       IN  /\ global_buckets' =
                 IF hasGlobal
                 THEN [global_buckets EXCEPT ![bucket_type] = g.bucket]
                 ELSE global_buckets
           /\ IF g.result # "True"
              THEN /\ check_ret' =
                        CheckCall(bucket_type, user_id, n, blocking, g.result)
                   /\ UNCHANGED buckets
              ELSE IF user_id # None /\ bucket_type \in DOMAIN buckets
              THEN LET users == buckets[bucket_type]
                       ub == IF user_id \in DOMAIN users THEN users[user_id]
                             ELSE TokenBucket(DefaultCapacity, DefaultRefillRate,
                                              now)
                       u == BucketAcquire(ub, n, blocking, now)
                   IN  /\ buckets' = [buckets EXCEPT ![bucket_type] =
                                          Put(users, user_id, u.bucket)]
                       /\ check_ret' =
                            CheckCall(bucket_type, user_id, n, blocking, u.result)
              ELSE /\ check_ret' =
                        CheckCall(bucket_type, user_id, n, blocking, "True")
                   /\ UNCHANGED buckets
    /\ UNCHANGED now
    /\ UNCHANGED notRL

\* time.time() advances while the limiter is in use.
RLTick ==
    /\ now < RLMaxTime
    /\ Tick

NextRL ==
    \/ \E name \in BucketTypes : AddGlobalBucket(name, RLCapacity, RLRefillRate)
    \/ \E bucket_type \in BucketTypes, user_id \in ConfiguredUsers :
          AddUserBucket(bucket_type, user_id, RLUserCapacity, RLRefillRate)
    \/ \E bucket_type \in BucketTypes, user_id \in UserIds \cup {None},
          n \in 1..RLMaxRequest, blocking \in BOOLEAN :
          Check(bucket_type, user_id, n, blocking)
    \/ RLTick

(***************************************************************************)
(* EmbeddingCache                                                          *)
(***************************************************************************)
\* The texts looked up and stored. "a" and "a2" stand for two texts whose
\* SHA-256 digests share their first 16 hex digits.
CacheTexts == {"a", "a2", "b", "c"}

\* EmbeddingCache(max_size, ttl), ttl in ticks.
MaxSize == 2
Ttl == 2
\* How far the clock runs, and how many get() calls are made between two
\* clear() calls.
ECMaxTime == 2
MaxGets == 2

\* _hash: the first 16 hex digits of the text's SHA-256 digest.
Hash(text) ==
    CASE text = "a" -> "ka"
      [] text = "a2" -> "ka"
      [] text = "b" -> "kb"
      [] text = "c" -> "kc"

\* What the last call returned when it was a get: the text looked up, the
\* result, whether the entry was found expired (line 73), the clock reading
\* of the call, and whether the call came right after a get of the same text
\* with the same clock reading. set() and clear() return nothing.
NoGet ==
    [text |-> None, result |-> None, expired |-> FALSE, at |-> 0,
     again |-> FALSE]
GetRet(text, result, purged) ==
    [text |-> text, result |-> result, expired |-> purged, at |-> now,
     again |-> get_ret.text = text /\ get_ret.at = now]

\* An entry of self.cache: the key and the embedding stored under it. text is
\* history, which the cache does not keep: the text of the set() call that
\* stored the entry.
Entry(key, embedding, text) == [key |-> key, value |-> embedding, text |-> text]

\* The keys of an OrderedDict, in its order.
Keys(od) == [i \in 1..Len(od) |-> od[i].key]
KeySet(od) == {od[i].key : i \in 1..Len(od)}

\* del od[key]
Del(od, key) == SelectSeq(od, LAMBDA e : e.key # key)

\* od[key]
Lookup(od, key) == (CHOOSE i \in 1..Len(od) : od[i].key = key)

\* del d[key] on a plain dict
DelKey(d, key) == [k \in DOMAIN d \ {key} |-> d[k]]

\* A key becomes the most recently used one.
Touch(order, key) == Append(SelectSeq(order, LAMBDA k : k # key), key)

InitEC ==
    /\ cache = <<>>
    /\ timestamps = NoMap
    /\ hits = 0
    /\ misses = 0
    /\ get_ret = NoGet
    /\ recency = <<>>

\* get that returns a hit without moving the entry to the end.
CacheGetNoMove(text) ==
    LET key == Hash(text)
    IN  /\ hits + misses < MaxGets
        /\ IF key \in KeySet(cache)
           THEN IF now - timestamps[key] < Ttl
                THEN /\ hits' = hits + 1
                     /\ get_ret' = GetRet(text, cache[Lookup(cache, key)].value, FALSE)
                     /\ recency' = Touch(recency, key)
                     /\ UNCHANGED <<cache, timestamps, misses>>
                ELSE /\ cache' = Del(cache, key)
                     /\ timestamps' = DelKey(timestamps, key)
                     /\ misses' = misses + 1
                     /\ get_ret' = GetRet(text, None, TRUE)
                     /\ UNCHANGED <<hits, recency>>
           ELSE /\ misses' = misses + 1
                /\ get_ret' = GetRet(text, None, FALSE)
                /\ UNCHANGED <<cache, timestamps, hits, recency>>
        /\ UNCHANGED now
        /\ UNCHANGED notEC

\* get that still returns an entry whose age equals ttl.
CacheGetLate(text) ==
    LET key == Hash(text)
    IN  /\ hits + misses < MaxGets
        /\ IF key \in KeySet(cache)
           THEN IF now - timestamps[key] <= Ttl
                THEN /\ cache' = Append(Del(cache, key), cache[Lookup(cache, key)])
                     /\ hits' = hits + 1
                     /\ get_ret' = GetRet(text, cache[Lookup(cache, key)].value, FALSE)
                     /\ recency' = Touch(recency, key)
                     /\ UNCHANGED <<timestamps, misses>>
                ELSE /\ cache' = Del(cache, key)
                     /\ timestamps' = DelKey(timestamps, key)
                     /\ misses' = misses + 1
                     /\ get_ret' = GetRet(text, None, TRUE)
                     /\ UNCHANGED <<hits, recency>>
           ELSE /\ misses' = misses + 1
                /\ get_ret' = GetRet(text, None, FALSE)
                /\ UNCHANGED <<cache, timestamps, hits, recency>>
        /\ UNCHANGED now
        /\ UNCHANGED notEC

\* get that removes the entry it returns.
CacheGetPop(text) ==
    LET key == Hash(text)
    IN  /\ hits + misses < MaxGets
        /\ IF key \in KeySet(cache)
           THEN IF now - timestamps[key] < Ttl
                THEN /\ cache' = Del(cache, key)
                     /\ timestamps' = DelKey(timestamps, key)
                     /\ hits' = hits + 1
                     /\ get_ret' = GetRet(text, cache[Lookup(cache, key)].value, FALSE)
                     /\ recency' = Touch(recency, key)
                     /\ UNCHANGED misses
                ELSE /\ cache' = Del(cache, key)
                     /\ timestamps' = DelKey(timestamps, key)
                     /\ misses' = misses + 1
                     /\ get_ret' = GetRet(text, None, TRUE)
                     /\ UNCHANGED <<hits, recency>>
           ELSE /\ misses' = misses + 1
                /\ get_ret' = GetRet(text, None, FALSE)
                /\ UNCHANGED <<cache, timestamps, hits, recency>>
        /\ UNCHANGED now
        /\ UNCHANGED notEC

\* get(text)
CacheGet(text) ==
    LET key == Hash(text)
    IN  /\ hits + misses < MaxGets
        /\ IF key \in KeySet(cache)
           THEN IF now - timestamps[key] < Ttl
                THEN /\ cache' = Append(Del(cache, key), cache[Lookup(cache, key)])
                     /\ hits' = hits + 1
                     /\ get_ret' = GetRet(text, cache[Lookup(cache, key)].value, FALSE)
                     /\ recency' = Touch(recency, key)
                     /\ UNCHANGED <<timestamps, misses>>
                ELSE /\ cache' = Del(cache, key)
                     /\ timestamps' = DelKey(timestamps, key)
                     /\ misses' = misses + 1
                     /\ get_ret' = GetRet(text, None, TRUE)
                     /\ UNCHANGED <<hits, recency>>
           ELSE /\ misses' = misses + 1
                /\ get_ret' = GetRet(text, None, FALSE)
                /\ UNCHANGED <<cache, timestamps, hits, recency>>
        /\ UNCHANGED now
        /\ UNCHANGED notEC

\* set that never evicts.
CacheSetNoEvict(text, embedding) ==
    LET key == Hash(text)
    IN  /\ cache' = Append(Del(cache, key), Entry(key, embedding, text))
        /\ timestamps' = Put(timestamps, key, now)
        /\ recency' = Touch(recency, key)
        /\ get_ret' = NoGet
        /\ UNCHANGED <<hits, misses, now>>
        /\ UNCHANGED notEC

\* set(text, embedding)
CacheSet(text, embedding) ==
    LET key == Hash(text)
        evict == Len(cache) >= MaxSize /\ key \notin KeySet(cache)
        kept == IF evict THEN Tail(cache) ELSE cache
        stamps == IF evict THEN DelKey(timestamps, Head(cache).key)
                  ELSE timestamps
    IN  /\ cache' = Append(Del(kept, key), Entry(key, embedding, text))
        /\ timestamps' = Put(stamps, key, now)
        /\ recency' = Touch(recency, key)
        /\ get_ret' = NoGet
        /\ UNCHANGED <<hits, misses, now>>
        /\ UNCHANGED notEC

\* clear()
CacheClear ==
    /\ cache' = <<>>
    /\ timestamps' = NoMap
    /\ hits' = 0
    /\ misses' = 0
    /\ get_ret' = NoGet
    /\ UNCHANGED <<recency, now>>
    /\ UNCHANGED notEC

\* time.time() advances while the cache is in use.
ECTick ==
    /\ now < ECMaxTime
    /\ Tick

NextEC ==
    \/ \E text \in CacheTexts : CacheGet(text)
    \/ \E text \in CacheTexts, embedding \in Values : CacheSet(text, embedding)
    \/ CacheClear
    \/ ECTick

(***************************************************************************)
(* VectorStoreService                                                      *)
(***************************************************************************)
\* The module ids. "m1s" stands for "m1" followed by a lone surrogate
\* ("m1\ud800"), a character that has no UTF-8 encoding.
Modules == {"m1", "m1s", "m2"}

\* module_id.encode("utf-8", errors="ignore"): the characters that cannot be
\* encoded are left out.
Encode(module_id) == IF module_id = "m1s" THEN "m1" ELSE module_id

\* hashlib.sha256(...).hexdigest() of the two byte strings.
Sha256(bytes) == IF bytes = "m1" THEN "ca0d" ELSE "29c1"

\* _module_key: the name of the module's two artifacts.
ModuleKey(module_id) == Sha256(Encode(module_id))
ModuleKeys == {ModuleKey(m) : m \in Modules}
Texts == {"a", "b"}
\* An artifact on disk: no file, an unreadable file, or a file with rows.
Absent == [st |-> "absent", rows |-> <<>>]
Corrupt == [st |-> "corrupt", rows |-> <<>>]
File(rows) == [st |-> "ok", rows |-> rows]

\* The most rows all modules hold together (in memory or on disk).
MaxRows == 3
\* batch_size of add_documents (50 in the source), scaled down.
BatchSize == 1
\* The number of process restarts.
MaxRestarts == 1
\* How _save_module ends: both artifacts written; write_index fails before
\* or while writing; the metadata file cannot be opened or json.dump fails
\* after the file was truncated.
SaveOutcomes ==
    {"ok", "index_unwritten", "index_corrupt", "meta_unwritten", "meta_corrupt"}

\* The embedding of a text (azure_openai_service.generate_embeddings_batch).
Embed(text) == <<"vec", text>>

\* Python values held in a document's metadata or in a filter: None, a
\* string, or a list, tuple or set of strings and None.
PyNone == [tag |-> "none", items |-> <<>>]
Str(s) == [tag |-> "str", items |-> <<s>>]
PyList(items) == [tag |-> "list", items |-> items]
PyTuple(items) == [tag |-> "tuple", items |-> items]
PySet(items) == [tag |-> "set", items |-> items]

\* doc.get("metadata") of the document with a given text: "a" is a formula
\* chunk, "b" a text chunk that carries its pages as a tuple.
Meta(text) ==
    IF text = "a" THEN [chunk_type |-> Str("formula")]
    ELSE [chunk_type |-> Str("text"), pages |-> PyTuple(<<"1", "2">>)]

\* The record add_documents stores for a document (source and url are the
\* same for every document here and left out).
Record(text) == [text |-> text, metadata |-> Meta(text)]

\* What json.load gives back for a value json.dump has written: a tuple
\* comes back as a list.
JsonValue(v) == IF v.tag = "tuple" THEN PyList(v.items) ELSE v

\* A record after json.dump and json.load.
Json(record) ==
    [text |-> record.text,
     metadata |-> [k \in DOMAIN record.metadata |->
                      JsonValue(record.metadata[k])]]

\* The rows of the metadata file json.dump writes for a list of records.
JsonRows(records) == [i \in 1..Len(records) |-> Json(records[i])]

\* The embeddings and the records of a list of documents, in its order.
EmbedAll(documents) == [i \in 1..Len(documents) |-> Embed(documents[i])]
RecordAll(documents) == [i \in 1..Len(documents) |-> Record(documents[i])]

DocLists == UNION {[1..n -> Texts] : n \in 0..MaxRows}

\* The tasks that call add_documents() concurrently.
Adders == {"w1", "w2"}
\* A task that is in no call.
NotAdding == [pc |-> "idle", module_id |-> None, documents |-> <<>>, embedded |-> 0]

InitVS ==
    /\ indices = NoMap
    /\ metadata = NoMap
    /\ disk_index = [k \in ModuleKeys |-> Absent]
    /\ disk_meta = [k \in ModuleKeys |-> Absent]
    /\ add_result = "none"
    /\ add_module = None
    /\ add_exc = None
    /\ failed_batch = 0
    /\ okDocs = [m \in Modules |-> <<>>]
    /\ fresh = [m \in Modules |-> TRUE]
    /\ restarts = 0
    /\ adding = [t \in Adders |-> NotAdding]

Store(idx, meta, ok) == [indices |-> idx, metadata |-> meta, ok |-> ok]

\* _load_module: the in-memory maps after the call, and what it returns.
LoadModule(module_id) ==
    IF module_id \in DOMAIN indices /\ module_id \in DOMAIN metadata
    THEN Store(indices, metadata, TRUE)
    ELSE IF disk_index[ModuleKey(module_id)] = Absent \/ disk_meta[ModuleKey(module_id)] = Absent
    THEN Store(indices, metadata, FALSE)
    ELSE IF disk_index[ModuleKey(module_id)] = Corrupt
    THEN Store(indices, metadata, FALSE)
    ELSE IF disk_meta[ModuleKey(module_id)] = Corrupt
    THEN Store(Put(indices, module_id, disk_index[ModuleKey(module_id)].rows), metadata, FALSE)
    ELSE Store(Put(indices, module_id, disk_index[ModuleKey(module_id)].rows),
               Put(metadata, module_id, disk_meta[ModuleKey(module_id)].rows), TRUE)

\* _get_index: the in-memory maps after the call.
GetIndex(module_id) ==
    IF module_id \in DOMAIN indices
    THEN Store(indices, metadata, TRUE)
    ELSE LET l == LoadModule(module_id)
         IN  IF l.ok THEN l
             ELSE Store(Put(l.indices, module_id, <<>>),
                        Put(l.metadata, module_id, <<>>), TRUE)

\* _save_module, called with both maps holding the module.
SaveModule(module_id, idx, meta, save) ==
    /\ disk_index' =
         IF save \in {"ok", "meta_unwritten", "meta_corrupt"}
         THEN [disk_index EXCEPT ![ModuleKey(module_id)] = File(idx[module_id])]
         ELSE IF save = "index_corrupt"
         THEN [disk_index EXCEPT ![ModuleKey(module_id)] = Corrupt]
         ELSE disk_index
    /\ disk_meta' =
         IF save = "ok"
         THEN [disk_meta EXCEPT ![ModuleKey(module_id)] = File(JsonRows(meta[module_id]))]
         ELSE IF save = "meta_corrupt"
         THEN [disk_meta EXCEPT ![ModuleKey(module_id)] = Corrupt]
         ELSE disk_meta

Max(a, b) == IF a >= b THEN a ELSE b

\* The rows in memory of a set of modules.
RECURSIVE MemRows(_, _)
MemRows(idx, ms) ==
    IF ms = {} THEN 0
    ELSE LET m == CHOOSE x \in ms : TRUE
         IN  (IF m \in DOMAIN idx THEN Len(idx[m]) ELSE 0) + MemRows(idx, ms \ {m})

RECURSIVE SumRows(_, _)
SumRows(idx, ks) ==
    IF ks = {} THEN 0
    ELSE LET k == CHOOSE x \in ks : TRUE
         IN  Max(MemRows(idx, {m \in Modules : ModuleKey(m) = k}),
                 Len(disk_index[k].rows))
               + SumRows(idx, ks \ {k})

\* The rows of all modules, in memory or on disk.
TotalRows(idx) == SumRows(idx, ModuleKeys)

NumBatches(documents) == CeilDiv(Len(documents), BatchSize)

\* add_documents that adds each batch's vectors as soon as it is embedded.
AddDocumentsPerBatch(module_id, documents, failAt, save) ==
    LET g == GetIndex(module_id)
        done == IF failAt = 0 THEN Len(documents)
                ELSE Min(Len(documents), (failAt - 1) * BatchSize)
        rows == g.indices[module_id] \o
                    EmbedAll(SubSeq(documents, 1, done))
    IN  /\ failAt <= NumBatches(documents)
        /\ TotalRows(g.indices) + Len(documents) <= MaxRows
        /\ indices' = Put(g.indices, module_id, rows)
        /\ IF failAt # 0 \/ Len(documents) = 0 \/ module_id \notin DOMAIN g.metadata
           THEN /\ metadata' = g.metadata
                /\ add_result' = "raised"
                /\ add_module' = module_id
                /\ add_exc' = IF failAt # 0 THEN "ProviderError"
                              ELSE IF Len(documents) = 0 THEN "ValueError"
                              ELSE "KeyError"
                /\ UNCHANGED <<disk_index, disk_meta, okDocs>>
           ELSE /\ metadata' = Put(g.metadata, module_id,
                                   g.metadata[module_id] \o RecordAll(documents))
                /\ SaveModule(module_id, indices', metadata', save)
                /\ add_result' = "ok"
                /\ add_module' = module_id
                /\ add_exc' = None
                /\ okDocs' = [okDocs EXCEPT ![module_id] = @ \o documents]
        /\ failed_batch' = failAt
        /\ UNCHANGED <<fresh, restarts, adding>>
        /\ UNCHANGED notVS

\* add_documents(module_id, documents). failAt is the batch whose embedding
\* call raises (0: none); an empty list makes index.add raise. All embeddings
\* are collected before the index is touched; the metadata list is looked up
\* after index.add.
AddDocuments(module_id, documents, failAt, save) ==
    LET g == GetIndex(module_id)
    IN  /\ failAt <= NumBatches(documents)
        /\ TotalRows(g.indices) + Len(documents) <= MaxRows
        /\ IF failAt # 0 \/ Len(documents) = 0
           THEN /\ indices' = g.indices
                /\ metadata' = g.metadata
                /\ add_result' = "raised"
                /\ add_module' = module_id
                /\ add_exc' = IF failAt # 0 THEN "ProviderError"
                              ELSE "ValueError"
                /\ UNCHANGED <<disk_index, disk_meta, okDocs>>
           ELSE /\ indices' = Put(g.indices, module_id,
                                  g.indices[module_id] \o EmbedAll(documents))
                /\ IF module_id \notin DOMAIN g.metadata
                   THEN /\ metadata' = g.metadata
                        /\ add_result' = "raised"
                        /\ add_module' = module_id
                        /\ add_exc' = "KeyError"
                        /\ UNCHANGED <<disk_index, disk_meta, okDocs>>
                   ELSE /\ metadata' = Put(g.metadata, module_id,
                                   g.metadata[module_id] \o RecordAll(documents))
                        /\ SaveModule(module_id, indices', metadata', save)
                        /\ add_result' = "ok"
                        /\ add_module' = module_id
                        /\ add_exc' = None
                        /\ okDocs' = [okDocs EXCEPT ![module_id] = @ \o documents]
        /\ failed_batch' = failAt
        /\ UNCHANGED <<fresh, restarts, adding>>
        /\ UNCHANGED notVS

\* search(), lines 116-120: the lazy load when the module has no index in
\* memory.
Search(module_id) ==
    /\ module_id \notin DOMAIN indices
    /\ LET l == LoadModule(module_id)
       IN  /\ indices' = l.indices
           /\ metadata' = l.metadata
    /\ add_exc' = None
    /\ failed_batch' = 0
    /\ UNCHANGED <<disk_index, disk_meta, add_result, add_module, okDocs, fresh,
                   restarts,
                   adding>>
    /\ UNCHANGED notVS

\* get_documents() and get_context_length(), lines 166-167 and 197-198: the
\* lazy load when the module has no metadata in memory.
LoadForRead(module_id) ==
    /\ module_id \notin DOMAIN metadata
    /\ LET l == LoadModule(module_id)
       IN  /\ indices' = l.indices
           /\ metadata' = l.metadata
    /\ add_exc' = None
    /\ failed_batch' = 0
    /\ UNCHANGED <<disk_index, disk_meta, add_result, add_module, okDocs, fresh,
                   restarts,
                   adding>>
    /\ UNCHANGED notVS

\* The documents of the calls that are suspended.
RECURSIVE InFlight(_)
InFlight(ts) ==
    IF ts = {} THEN 0
    ELSE LET t == CHOOSE x \in ts : TRUE
         IN  Len(adding[t].documents) + InFlight(ts \ {t})

\* add_documents() up to its first suspension point (lines 76-84):
\* _get_index, the texts, and the call that embeds the first batch. An empty
\* list has no batch: the call goes on to index.add, which raises.
BeginAdd(t, module_id, documents) ==
    LET g == GetIndex(module_id)
    IN  /\ adding[t].pc = "idle"
        /\ TotalRows(g.indices) + InFlight(Adders) + Len(documents) <= MaxRows
        /\ indices' = g.indices
        /\ metadata' = g.metadata
        /\ IF Len(documents) = 0
           THEN /\ add_result' = "raised"
                /\ add_module' = module_id
                /\ add_exc' = "ValueError"
                /\ UNCHANGED adding
           ELSE /\ adding' = [adding EXCEPT ![t] =
                                 [pc |-> "embedding", module_id |-> module_id,
                                  documents |-> documents, embedded |-> 0]]
                /\ add_exc' = None
                /\ UNCHANGED <<add_result, add_module>>
        /\ failed_batch' = 0
        /\ UNCHANGED <<disk_index, disk_meta, okDocs, fresh, restarts>>
        /\ UNCHANGED notVS

\* add_documents() that adds the vectors of each batch to the index as soon
\* as the batch is embedded, and the records after the last batch.
EmbedBatchPerBatch(t, fail) ==
    LET module_id == adding[t].module_id
        documents == adding[t].documents
        first == adding[t].embedded * BatchSize + 1
        last == Min(Len(documents), first + BatchSize - 1)
    IN  /\ adding[t].pc = "embedding"
        /\ IF fail
           THEN /\ adding' = [adding EXCEPT ![t] = NotAdding]
                /\ add_result' = "raised"
                /\ add_module' = module_id
                /\ add_exc' = "ProviderError"
                /\ failed_batch' = adding[t].embedded + 1
                /\ UNCHANGED <<indices, metadata, disk_index, disk_meta, okDocs>>
           ELSE /\ indices' = Put(indices, module_id,
                                  indices[module_id]
                                      \o EmbedAll(SubSeq(documents, first, last)))
                /\ IF adding[t].embedded + 1 < NumBatches(documents)
                   THEN /\ adding' = [adding EXCEPT ![t].embedded = @ + 1]
                        /\ UNCHANGED <<metadata, disk_index, disk_meta,
                                       add_result, add_module, add_exc, failed_batch, okDocs>>
                   ELSE /\ adding' = [adding EXCEPT ![t] = NotAdding]
                        /\ failed_batch' = 0
                        /\ metadata' = Put(metadata, module_id,
                                   metadata[module_id] \o RecordAll(documents))
                        /\ SaveModule(module_id, indices', metadata', "ok")
                        /\ add_result' = "ok"
                        /\ add_module' = module_id
                        /\ add_exc' = None
                        /\ okDocs' = [okDocs EXCEPT ![module_id] = @ \o documents]
        /\ UNCHANGED <<fresh, restarts>>
        /\ UNCHANGED notVS

\* add_documents() from the return of an embedding call to the next
\* suspension point or to its end (lines 84-104). fail: the embedding call
\* raises. After the last batch the call runs to its end without suspending:
\* index.add, the records, _save_module (on storage that takes both
\* artifacts). The index is the one _get_index returned.
EmbedBatch(t, fail) ==
    LET module_id == adding[t].module_id
        documents == adding[t].documents
    IN  /\ adding[t].pc = "embedding"
        /\ IF fail
           THEN /\ adding' = [adding EXCEPT ![t] = NotAdding]
                /\ add_result' = "raised"
                /\ add_module' = module_id
                /\ add_exc' = "ProviderError"
                /\ failed_batch' = adding[t].embedded + 1
                /\ UNCHANGED <<indices, metadata, disk_index, disk_meta, okDocs>>
           ELSE IF adding[t].embedded + 1 < NumBatches(documents)
           THEN /\ adding' = [adding EXCEPT ![t].embedded = @ + 1]
                /\ UNCHANGED <<indices, metadata, disk_index, disk_meta,
                               add_result, add_module, add_exc, failed_batch, okDocs>>
           ELSE /\ adding' = [adding EXCEPT ![t] = NotAdding]
                /\ indices' = Put(indices, module_id,
                                  indices[module_id] \o EmbedAll(documents))
                /\ failed_batch' = 0
                /\ IF module_id \notin DOMAIN metadata
                   THEN /\ add_result' = "raised"
                        /\ add_module' = module_id
                        /\ add_exc' = "KeyError"
                        /\ UNCHANGED <<metadata, disk_index, disk_meta, okDocs>>
                   ELSE /\ metadata' = Put(metadata, module_id,
                                   metadata[module_id] \o RecordAll(documents))
                        /\ SaveModule(module_id, indices', metadata', "ok")
                        /\ add_result' = "ok"
                        /\ add_module' = module_id
                        /\ add_exc' = None
                        /\ okDocs' = [okDocs EXCEPT ![module_id] = @ \o documents]
        /\ UNCHANGED <<fresh, restarts>>
        /\ UNCHANGED notVS

\* metadata_filters: the (key, expected) pairs of the dict in its order; None
\* and {} are the empty sequence.
NoFilters == <<>>
Filter(key, expected) == [key |-> key, expected |-> expected]

\* meta.get(key)
DictGet(meta, key) == IF key \in DOMAIN meta THEN meta[key] ELSE PyNone

\* "actual in expected" for a list or a tuple: some element equals actual.
\* The elements are strings and None, so a list or a tuple equals none.
InItems(actual, expected) ==
    /\ actual.tag \in {"none", "str"}
    /\ \E i \in 1..Len(expected.items) :
          expected.items[i] =
              IF actual.tag = "none" THEN None ELSE actual.items[1]

\* Membership in a set hashes actual first: a list has no hash.
Unhashable(actual) == actual.tag \in {"list", "set"}

\* matches_filters of search (lines 131-145) from the i-th filter on:
\* "True", "False", or "TypeError" when the test raises.
RECURSIVE MatchesFrom(_, _, _)
MatchesFrom(meta, metadata_filters, i) ==
    IF i > Len(metadata_filters) THEN "True"
    ELSE LET expected == metadata_filters[i].expected
             actual == DictGet(meta, metadata_filters[i].key)
         IN  IF expected.tag = "none"
             THEN MatchesFrom(meta, metadata_filters, i + 1)
             ELSE IF expected.tag \in {"list", "tuple", "set"}
             THEN IF expected.tag = "set" /\ Unhashable(actual)
                  THEN "TypeError"
                  ELSE IF ~InItems(actual, expected) THEN "False"
                  ELSE MatchesFrom(meta, metadata_filters, i + 1)
             ELSE IF actual # expected THEN "False"
             ELSE MatchesFrom(meta, metadata_filters, i + 1)

\* matches_filters(doc_meta)
MatchesFilters(doc_meta, metadata_filters) ==
    IF metadata_filters = NoFilters THEN "True"
    ELSE MatchesFrom(doc_meta.metadata, metadata_filters, 1)

\* The inner loop of get_documents when an expected None is compared like any
\* other scalar.
RECURSIVE DocOkFromNoSkip(_, _, _)
DocOkFromNoSkip(meta, metadata_filters, i) ==
    IF i > Len(metadata_filters) THEN "True"
    ELSE LET key == metadata_filters[i].key
             expected == metadata_filters[i].expected
             actual == DictGet(meta, key)
         IN  CASE expected.tag \in {"list", "tuple"} ->
                    IF InItems(actual, expected)
                    THEN DocOkFromNoSkip(meta, metadata_filters, i + 1)
                    ELSE "False"
               [] expected.tag = "set" ->
                    IF Unhashable(actual) THEN "TypeError"
                    ELSE IF InItems(actual, expected)
                    THEN DocOkFromNoSkip(meta, metadata_filters, i + 1)
                    ELSE "False"
               [] OTHER ->
                    IF actual = expected
                    THEN DocOkFromNoSkip(meta, metadata_filters, i + 1)
                    ELSE "False"

\* The inner loop of get_documents (lines 178-190) from the i-th filter on:
\* the value of ok, or "TypeError" when the test raises.
RECURSIVE DocOkFrom(_, _, _)
DocOkFrom(meta, metadata_filters, i) ==
    IF i > Len(metadata_filters) THEN "True"
    ELSE LET key == metadata_filters[i].key
             expected == metadata_filters[i].expected
             actual == DictGet(meta, key)
         IN  CASE expected.tag = "none" ->
                    DocOkFrom(meta, metadata_filters, i + 1)
               [] expected.tag \in {"list", "tuple"} ->
                    IF InItems(actual, expected)
                    THEN DocOkFrom(meta, metadata_filters, i + 1)
                    ELSE "False"
               [] expected.tag = "set" ->
                    IF Unhashable(actual) THEN "TypeError"
                    ELSE IF InItems(actual, expected)
                    THEN DocOkFrom(meta, metadata_filters, i + 1)
                    ELSE "False"
               [] OTHER ->
                    IF actual = expected
                    THEN DocOkFrom(meta, metadata_filters, i + 1)
                    ELSE "False"

\* What a call returns or raises: the documents returned, and the exception
\* that reached the caller (None when the call returned).
Returned(docs) == [docs |-> docs, raised |-> None]
Raised(exc) == [docs |-> <<>>, raised |-> exc]

\* The outer loop of get_documents (lines 175-193) over docs[i..].
RECURSIVE FilterDocsFrom(_, _, _)
FilterDocsFrom(docs, metadata_filters, i) ==
    IF i > Len(docs) THEN Returned(<<>>)
    ELSE LET ok == DocOkFrom(docs[i].metadata, metadata_filters, 1)
             rest == FilterDocsFrom(docs, metadata_filters, i + 1)
         IN  IF ok = "TypeError" \/ rest.raised # None
             THEN Raised("TypeError")
             ELSE IF ok = "True" THEN Returned(<<docs[i]>> \o rest.docs)
             ELSE rest

\* get_documents(module_id, metadata_filters): what it returns in the
\* current state (the lazy load is LoadForRead).
GetDocuments(module_id, metadata_filters) ==
    LET meta == IF module_id \in DOMAIN metadata THEN metadata
                ELSE LoadModule(module_id).metadata
    IN  IF module_id \notin DOMAIN meta THEN Returned(<<>>)
        ELSE IF metadata_filters = NoFilters THEN Returned(meta[module_id])
        ELSE FilterDocsFrom(meta[module_id], metadata_filters, 1)

\* The L2 distance of a stored vector from the embedding of the query: 0 for
\* the embedding of the same text, 1 for another.
Dist(vector, query) == IF vector = Embed(query) THEN 0 ELSE 1

\* The orders of the rows in a set, nearest first, rows at equal distances in
\* any order.
\* index.search(query_np, k): the row numbers (from 1; 0 stands for -1) of
\* the k nearest rows, nearest first, padded with -1 when the index has fewer
\* than k rows.
RECURSIVE NearestFirst(_, _, _)
NearestFirst(rows, query, S) ==
    IF S = {} THEN {<<>>}
    ELSE LET nearest == {i \in S : \A j \in S :
                            Dist(rows[i], query) <= Dist(rows[j], query)}
         IN  UNION {{<<i>> \o p : p \in NearestFirst(rows, query, S \ {i})} :
                       i \in nearest}
IndexSearch(rows, query, k) ==
    {[pos \in 1..k |-> IF pos <= Len(rows) THEN p[pos] ELSE 0] :
        p \in NearestFirst(rows, query, 1..Len(rows))}

\* A result of search: the record with its distance.
Hit(record, dist) ==
    [text |-> record.text, metadata |-> record.metadata, distance |-> dist]

\* The loop of search (lines 147-157) from position pos on, with the results
\* collected so far. has_meta: the module has a metadata list.
RECURSIVE SearchLoop(_, _, _, _, _, _, _, _)
SearchLoop(I, pos, res, rows, has_meta, records, query, args) ==
    IF pos > Len(I) THEN Returned(res)
    ELSE IF I[pos] # 0 /\ ~has_meta THEN Raised("KeyError")
    ELSE IF I[pos] = 0 \/ I[pos] > Len(records)
    THEN SearchLoop(I, pos + 1, res, rows, has_meta, records, query, args)
    ELSE LET doc == Hit(records[I[pos]], Dist(rows[I[pos]], query))
             ok == MatchesFilters(doc, args.metadata_filters)
             found == IF ok = "True" THEN Append(res, doc) ELSE res
         IN  IF ok = "TypeError" THEN Raised("TypeError")
             ELSE IF Len(found) >= args.top_k THEN Returned(found)
             ELSE SearchLoop(I, pos + 1, found, rows, has_meta, records,
                             query, args)

\* The arguments of search other than the module and the query.
SearchArgs(top_k, overfetch_k, metadata_filters) ==
    [top_k |-> top_k, overfetch_k |-> overfetch_k,
     metadata_filters |-> metadata_filters]

\* The body of search (lines 116-159) in the current state: every outcome
\* it can have, before the handler of lines 160-162. fail: the embedding of
\* the query raises. index.search refuses k = 0.
SearchBody(module_id, query, args, fail) ==
    LET l == IF module_id \in DOMAIN indices THEN Store(indices, metadata, TRUE)
             ELSE LoadModule(module_id)
        k == Max(args.top_k, args.overfetch_k)
    IN  IF module_id \notin DOMAIN l.indices THEN {Returned(<<>>)}
        ELSE IF fail THEN {Raised("ProviderError")}
        ELSE IF k = 0 THEN {Raised("AssertionError")}
        ELSE LET rows == l.indices[module_id]
                 has_meta == module_id \in DOMAIN l.metadata
                 records == IF has_meta THEN l.metadata[module_id] ELSE <<>>
             IN  {SearchLoop(I, 1, <<>>, rows, has_meta, records, query, args) :
                     I \in IndexSearch(rows, query, k)}

\* search(module_id, query, top_k, metadata_filters, overfetch_k): what the
\* caller can get in the current state. Every exception is logged and
\* answered with [] (lines 160-162).
SearchResults(module_id, query, args, fail) ==
    {IF r.raised # None THEN Returned(<<>>) ELSE r :
        r \in SearchBody(module_id, query, args, fail)}

\* get_context_length(): the value it returns in the current state.
GetContextLength(module_id) ==
    LET meta == IF module_id \in DOMAIN metadata THEN metadata
                ELSE LoadModule(module_id).metadata
    IN  IF module_id \in DOMAIN meta THEN Len(meta[module_id]) ELSE 0

\* The process ends, with the calls it was in, and a new one starts on the
\* same storage root.
Restart ==
    /\ restarts < MaxRestarts
    /\ restarts' = restarts + 1
    /\ indices' = NoMap
    /\ metadata' = NoMap
    /\ add_result' = "none"
    /\ add_module' = None
    /\ add_exc' = None
    /\ failed_batch' = 0
    /\ okDocs' = [m \in Modules |-> <<>>]
    /\ fresh' = [m \in Modules |->
                    /\ disk_index[ModuleKey(m)] = Absent
                    /\ disk_meta[ModuleKey(m)] = Absent]
    /\ adding' = [t \in Adders |-> NotAdding]
    /\ UNCHANGED <<disk_index, disk_meta>>
    /\ UNCHANGED notVS

\* The calls whose results are compared: top_k and overfetch_k up to a
\* bound, and filters on one or two of the keys below (on two keys: an
\* expected None, a scalar and a set, in both orders).
MaxTopK == 2
MaxOverfetch == 3
FilterKeys == {"chunk_type", "pages", "topic"}
ExpectedValues ==
    {PyNone, Str("formula"), Str("text"), PyList(<<"formula", None>>),
     PyTuple(<<"text">>), PySet(<<"formula", "text">>)}
OneKeyFilters ==
    {<<Filter(key, expected)>> : key \in FilterKeys, expected \in ExpectedValues}
TwoKeyFilters ==
    LET some == {f \in OneKeyFilters :
                    f[1].expected.tag \in {"none", "set"}
                        \/ f[1].expected = Str("text")}
    IN  {p[1] \o p[2] : p \in {q \in some \X some : q[1][1].key # q[2][1].key}}
FilterSets == {NoFilters} \cup OneKeyFilters \cup TwoKeyFilters
ArgSets ==
    {SearchArgs(top_k, overfetch_k, metadata_filters) :
        top_k \in 0..MaxTopK, overfetch_k \in 0..MaxOverfetch,
        metadata_filters \in {NoFilters} \cup OneKeyFilters}
\* The search that shows the most of a namespace.
ProbeArgs == SearchArgs(MaxTopK, MaxOverfetch, NoFilters)

\* One module, written and read by one process and its successors.
NextVS ==
    \/ \E documents \in DocLists, failAt \in 0..MaxRows :
          \E save \in IF failAt = 0 THEN SaveOutcomes ELSE {"ok"} :
              AddDocuments("m1", documents, failAt, save)
    \/ Search("m1")
    \/ LoadForRead("m1")
    \/ Restart

\* The same, when the embedding provider never fails and no call passes an
\* empty list.
NextVSNoFault ==
    \/ \E documents \in DocLists \ {<<>>}, save \in SaveOutcomes :
          AddDocuments("m1", documents, 0, save)
    \/ Search("m1")
    \/ LoadForRead("m1")
    \/ Restart

\* Several modules, written and read by one process and its successors; each
\* call adds one document, the embedding call fails or not, and the storage
\* takes both artifacts.
NextVSModules ==
    \/ \E module_id \in Modules, text \in Texts, failAt \in 0..1 :
          AddDocuments(module_id, <<text>>, failAt, "ok")
    \/ \E module_id \in Modules : Search(module_id)
    \/ \E module_id \in Modules : LoadForRead(module_id)
    \/ Restart

\* Tasks of one process that call add_documents() on one module, suspended
\* at their embedding calls, with reads and restarts in between.
NextVSConc ==
    \/ \E t \in Adders, documents \in DocLists : BeginAdd(t, "m1", documents)
    \/ \E t \in Adders, fail \in BOOLEAN : EmbedBatch(t, fail)
    \/ Search("m1")
    \/ LoadForRead("m1")
    \/ Restart

(***************************************************************************)
(* Specifications                                                          *)
(***************************************************************************)
(***************************************************************************)
(* AzureOpenAIService: generate_embedding and generate_embeddings_batch    *)
(***************************************************************************)
\* self.embedding_deployment and the model name of the fallback.
EmbeddingDeployment == "configured-deployment"
FallbackModel == "text-embedding-ada-002"

\* The texts embedded; "b/c" stands for "b\nc".
EmbTexts == {"a", "b/c"}
\* The longest list of texts passed to a request.
MaxTexts == 2

\* text.replace("\n", " ")
Sanitize(text) == IF text = "b/c" THEN "b c" ELSE text

\* The argument of a request: a string, or a list of strings.
PyStr(text) == [is_list |-> FALSE, items |-> <<text>>]
PyTexts(texts) == [is_list |-> TRUE, items |-> texts]
TextLists == UNION {[1..n -> EmbTexts] : n \in 0..MaxTexts}

\* What embeddings.create answers: the embeddings, or an exception whose
\* str() is the status code followed by the error code.
OkResponse == [ok |-> TRUE, message |-> <<>>]
ErrorResponse(message) == [ok |-> FALSE, message |-> message]
Responses ==
    {OkResponse,
     ErrorResponse(<<"404", "DeploymentNotFound">>),
     ErrorResponse(<<"404", "Resource not found">>),
     ErrorResponse(<<"429", "RateLimitReached">>)}

\* word in str(e)
Contains(message, word) == \E i \in DOMAIN message : message[i] = word

\* The embedding a model gives of a text.
Embedding(model, text) == [model |-> model, text |-> text]

\* What a request gives back: nothing yet, a vector or a list of vectors, or
\* an exception.
EmbPending == [status |-> "pending", is_list |-> FALSE, value |-> <<>>, error |-> <<>>]
EmbReturned(is_list, value) ==
    [status |-> "returned", is_list |-> is_list, value |-> value, error |-> <<>>]
EmbRaised(message) ==
    [status |-> "raised", is_list |-> FALSE, value |-> <<>>, error |-> message]

NoRequest == [method |-> None, arg |-> PyTexts(<<>>)]

InitAO ==
    /\ emb_pc = "idle"
    /\ emb_op = NoRequest
    /\ emb_i = 0
    /\ emb_results = <<>>
    /\ emb_calls = <<>>
    /\ emb_ret = EmbPending

\* The provider call: embeddings.create(model=model, input=input), where
\* input is a list of strings or (bare) one string.
ProviderCall(model, input, bare, response) ==
    [model |-> model, input |-> input, bare |-> bare, response |-> response]

\* The text generate_embedding works on: the first element of a list (or ""),
\* with its newlines replaced.
CurrentText ==
    LET text == IF emb_i > 0 THEN emb_op.arg.items[emb_i]
                ELSE IF emb_op.arg.is_list /\ emb_op.arg.items = <<>> THEN ""
                ELSE emb_op.arg.items[1]
    IN  Sanitize(text)

\* generate_embedding is called: up to its first provider call.
GenerateEmbedding(arg) ==
    /\ emb_pc = "idle"
    /\ emb_op' = [method |-> "generate_embedding", arg |-> arg]
    /\ emb_pc' = "primary"
    /\ emb_i' = 0
    /\ emb_results' = <<>>
    /\ emb_calls' = <<>>
    /\ emb_ret' = EmbPending
    /\ UNCHANGED notAO

\* generate_embeddings_batch is called: up to its provider call.
GenerateEmbeddingsBatch(texts) ==
    /\ emb_pc = "idle"
    /\ emb_op' = [method |-> "generate_embeddings_batch", arg |-> PyTexts(texts)]
    /\ emb_pc' = "batch"
    /\ emb_i' = 0
    /\ emb_results' = <<>>
    /\ emb_calls' = <<>>
    /\ emb_ret' = EmbPending
    /\ UNCHANGED notAO

\* A generate_embedding returns emb: to its caller, or to the loop of
\* generate_embeddings_batch, which goes on with the next text or returns.
EmbeddingReturns(emb) ==
    IF emb_i = 0
    THEN /\ emb_ret' = EmbReturned(FALSE, <<emb>>)
         /\ emb_pc' = "idle"
         /\ UNCHANGED <<emb_i, emb_results>>
    ELSE /\ emb_results' = Append(emb_results, emb)
         /\ IF emb_i < Len(emb_op.arg.items)
            THEN /\ emb_i' = emb_i + 1
                 /\ emb_pc' = "primary"
                 /\ emb_ret' = emb_ret
            ELSE /\ emb_i' = emb_i
                 /\ emb_pc' = "idle"
                 /\ emb_ret' = EmbReturned(TRUE, Append(emb_results, emb))

\* A generate_embedding raises: the loop of generate_embeddings_batch has no
\* handler, so the request ends.
EmbeddingRaises(message) ==
    /\ emb_ret' = EmbRaised(message)
    /\ emb_pc' = "idle"
    /\ UNCHANGED <<emb_i, emb_results>>

\* generate_embedding: the call on the configured deployment answers.
PrimaryAttempt(response) ==
    /\ emb_pc = "primary"
    /\ emb_calls' = Append(emb_calls,
          ProviderCall(EmbeddingDeployment, <<CurrentText>>, FALSE, response))
    /\ IF response.ok
       THEN EmbeddingReturns(Embedding(EmbeddingDeployment, CurrentText))
       ELSE IF \/ Contains(response.message, "DeploymentNotFound")
               \/ Contains(response.message, "404")
       THEN /\ emb_pc' = "fallback"
            /\ UNCHANGED <<emb_i, emb_results, emb_ret>>
       ELSE EmbeddingRaises(response.message)
    /\ UNCHANGED <<emb_op, notAO>>

\* generate_embedding: the call on the fallback model answers.
FallbackAttempt(response) ==
    /\ emb_pc = "fallback"
    /\ emb_calls' = Append(emb_calls,
          ProviderCall(FallbackModel, <<CurrentText>>, TRUE, response))
    /\ IF response.ok
       THEN EmbeddingReturns(Embedding(FallbackModel, CurrentText))
       ELSE EmbeddingRaises(response.message)
    /\ UNCHANGED <<emb_op, notAO>>

\* generate_embeddings_batch: the call with all the texts answers; on any
\* exception the texts are embedded one by one.
BatchAttempt(response) ==
    /\ emb_pc = "batch"
    /\ LET texts == emb_op.arg.items
           sanitized_texts == [i \in DOMAIN texts |-> Sanitize(texts[i])]
       IN  /\ emb_calls' = Append(emb_calls,
                 ProviderCall(EmbeddingDeployment, sanitized_texts, FALSE, response))
           /\ IF response.ok
              THEN /\ emb_ret' = EmbReturned(TRUE,
                        [i \in DOMAIN texts |->
                            Embedding(EmbeddingDeployment, sanitized_texts[i])])
                   /\ emb_pc' = "idle"
                   /\ UNCHANGED <<emb_i, emb_results>>
              ELSE IF texts = <<>>
              THEN /\ emb_ret' = EmbReturned(TRUE, <<>>)
                   /\ emb_pc' = "idle"
                   /\ UNCHANGED <<emb_i, emb_results>>
              ELSE /\ emb_i' = 1
                   /\ emb_pc' = "primary"
                   /\ UNCHANGED <<emb_results, emb_ret>>
    /\ UNCHANGED <<emb_op, notAO>>

NextAO ==
    \/ \E text \in EmbTexts : GenerateEmbedding(PyStr(text))
    \/ \E texts \in TextLists : GenerateEmbedding(PyTexts(texts))
    \/ \E texts \in TextLists : GenerateEmbeddingsBatch(texts)
    \/ \E response \in Responses : PrimaryAttempt(response)
    \/ \E response \in Responses : FallbackAttempt(response)
    \/ \E response \in Responses : BatchAttempt(response)

Init == InitDAG /\ InitTB /\ InitVS /\ InitRL /\ InitEC /\ InitAO

SpecDAG == Init /\ [][NextDAG]_vars

SpecDAGTimeout == Init /\ [][NextDAGTimeout]_vars

SpecTB == Init /\ [][NextTB]_vars

SpecVS == Init /\ [][NextVS]_vars

SpecVSNoFault == Init /\ [][NextVSNoFault]_vars

SpecVSConc == Init /\ [][NextVSConc]_vars

SpecVSModules == Init /\ [][NextVSModules]_vars

SpecRL == Init /\ [][NextRL]_vars

SpecEC == Init /\ [][NextEC]_vars

SpecAO == Init /\ [][NextAO]_vars

\* asyncio runs every created task and resumes execute() when gather is done.
FairDAG ==
    /\ WF_vars(Return)
    /\ WF_vars(RaiseCycle)
    /\ WF_vars(Launch)
    /\ WF_vars(LaunchCrash)
    /\ WF_vars(\E name \in Names, how \in Values \cup Excs : TaskFinish(name, how))
    /\ WF_vars(ProcessResults)

SpecDAGFair == SpecDAG /\ FairDAG
(***************************************************************************)
(* Properties of AgentDAG                                                  *)
(***************************************************************************)
DepsOf(n) == IF n \in DOMAIN nodes THEN nodes[n].dependencies ELSE {}

RECURSIVE ReachFrom(_, _)
ReachFrom(S, k) ==
    IF k = 0 THEN S
    ELSE ReachFrom(S \cup UNION {DepsOf(n) : n \in S}, k - 1)

\* The names n depends on, directly or through registered nodes.
Descendants(n) == ReachFrom(DepsOf(n), Cardinality(Names))

OnCycle(n) == n \in DOMAIN nodes /\ n \in Descendants(n)

Finished(d) ==
    /\ d \in completed
    /\ d \in DOMAIN results
    /\ d \in DOMAIN outcome
    /\ (d \in DOMAIN tasks => tasks[d] # "running")

\* C1: an executor is invoked only when every declared dependency of its node
\* has finished (returned, raised or timed out) and has been processed.
C1_StartsAfterDependencies ==
    \A n \in started : \A d \in nodes[n].dependencies : Finished(d)

\* C1 witness: C, depending on A and B, has been started after A timed out
\* and B returned.
C1_Witness ==
    /\ "C" \in started
    /\ nodes["C"].dependencies = {"A", "B"}
    /\ outcome["A"] = "TimeoutError"
    /\ outcome["B"] \in Values

\* The graphs of C2: every dependency registered, no cycle, every executor
\* an async function that finishes or is cut off.
WellFormed ==
    /\ \A n \in DOMAIN nodes : nodes[n].dependencies \subseteq DOMAIN nodes
    /\ \A n \in DOMAIN nodes : ~OnCycle(n)
    /\ \A n \in DOMAIN nodes : nodes[n].executor = "async"

C7_RaisesOnlyOnCycle ==
    pc \in {"raised", "crashed"} =>
        /\ GetReadyAgents(completed) = {}
        /\ completed # DOMAIN nodes

\* A two-node cycle among the registered nodes.
TwoNodeCycle ==
    \E a, b \in DOMAIN nodes :
        a \in nodes[b].dependencies /\ b \in nodes[a].dependencies

C9_RemainingFormCycle ==
    pc = "raised" =>
        \A n \in remaining :
            OnCycle(n) \/ \E m \in Descendants(n) : OnCycle(m)

\* C10: the context a node's executor was called with has exactly the keys of
\* initial_context and the node's declared dependencies; a dependency's key
\* holds that dependency's result, every other key the caller's value. No
\* other node's result occurs in it.
C10_ContextOnlyFromDependencies ==
    \A n \in DOMAIN agent_context :
        /\ DOMAIN agent_context[n] = DOMAIN context \cup nodes[n].dependencies
        /\ \A k \in DOMAIN agent_context[n] :
              agent_context[n][k] =
                  IF k \in nodes[n].dependencies THEN results[k] ELSE context[k]

\* C10 witness: C depends on B only, and was started when the result of A,
\* which it does not depend on, was already there.
C10_Witness ==
    /\ "C" \in DOMAIN agent_context
    /\ DOMAIN nodes = Names
    /\ nodes["C"].dependencies = {"B"}
    /\ nodes["B"].dependencies = {"A"}
    /\ results["A"] \in Values
    /\ context = [k \in {"q"} |-> "x"]
    /\ DOMAIN agent_context["C"] = {"q", "B"}

\* name is among its own dependencies.
SelfDependency(call) == call.name \in call.dependencies

\* Some dependency is a registered node that lists name as a dependency.
ClosesTwoNodeCycle(call) ==
    \E dep \in call.dependencies :
        dep \in DOMAIN nodes /\ call.name \in nodes[dep].dependencies

\* C12: an add_agent call whose name is in its own dependency set, or one of
\* whose dependencies is a registered node that depends on name, raises and
\* leaves the registered nodes as they were; a call that raises never changes
\* them.
C12_RefusedAddLeavesNodes ==
    [][adds' # adds =>
          /\ SelfDependency(last_add') \/ ClosesTwoNodeCycle(last_add') =>
                last_add'.raised /\ nodes' = nodes
          /\ last_add'.raised => nodes' = nodes]_vars

\* C12 witness: with A registered as depending on B, and B not registered,
\* add_agent("B", {"A"}) has raised and B is still not registered.
C12_Witness ==
    /\ last_add = AddCall("B", {"A"}, TRUE)
    /\ DOMAIN nodes = {"A"}
    /\ nodes["A"].dependencies = {"B"}

\* C11 as claimed: a node whose timeout has run out is no longer waited for,
\* and once the batch is processed it is in errors with the TimeoutError, its
\* result is None and it is completed.
C11_TimeoutStopsWaiting ==
    \A n \in expired \cup {m \in DOMAIN outcome : outcome[m] = "TimeoutError"} :
        /\ n \in DOMAIN tasks => tasks[n] # "running"
        /\ n \in completed =>
              /\ n \in DOMAIN errors /\ errors[n] = "TimeoutError"
              /\ results[n] = None
(***************************************************************************)
(* Properties of TokenBucket                                               *)
(***************************************************************************)
\* C5: the balance stays between 0 and the capacity in every state, and so
\* does the balance get_stats() reports.
C5_TokensWithinBounds ==
    /\ 0 <= tokens /\ tokens <= CapUnits
    /\ tret.kind = "stats" => 0 <= tret.val /\ tret.val <= CapUnits

\* C5 witness: the bucket was emptied by acquires, and after more time than
\* it takes to fill it again get_stats() reported a full bucket.
C5_Witness ==
    /\ granted > 0
    /\ tokens = 0
    /\ tokens + (now - last_refill) * RefillRate > CapUnits
    /\ tret = Stats(CapUnits)

\* C6 as claimed: a blocking acquire of n <= capacity tokens that slept
\* retries once and returns; it is never suspended for good, which it is when
\* its retry waits for the lock that the task itself still holds.
C6_BlockingAcquireReturns ==
    \A t \in Tasks :
        ~(tpc[t] = "waiting" /\ lock = t /\ targs[t].tokens <= Capacity)

\* A step in which an acquire() call returns.
AcquireReturns ==
    /\ tret'.kind = "bool"
    /\ tpc' = tpc /\ now' = now
    /\ tret' # tret \/ tokens' # tokens \/ last_refill' # last_refill

\* C13: an acquire(n) that returns has refilled the balance to
\* min(capacity, tokens + elapsed * refill_rate) and set last_refill to now; it
\* returns true exactly when that balance is at least n, and then the new
\* balance is the refilled one less n; otherwise the new balance is the
\* refilled one.
C13_NonBlockingAcquire ==
    [][AcquireReturns =>
          LET elapsed == now - last_refill
              sum == tokens + elapsed * RefillRate
              refilled == IF sum <= CapUnits THEN sum ELSE CapUnits
              n == tret'.tokens * Unit
          IN  /\ last_refill' = now
              /\ tret'.val = 1 <=> refilled >= n
              /\ tokens' = IF refilled >= n THEN refilled - n ELSE refilled]_vars

\* C13 witness: a non-blocking acquire(2) found the balance refilled to one
\* and a half tokens, returned false and left that balance.
C13_Witness ==
    /\ tret = Bool("t1", 2, FALSE)
    /\ last_refill = now /\ now > 0
    /\ tokens = 3
    /\ lock = "free"

\* C14: on a bucket created full, while no time has passed an acquire(1)
\* succeeds exactly as long as fewer than capacity tokens have been handed out
\* (so of a run of acquire(1) calls the first capacity succeed and the next
\* fails); and an acquire(1) made 1/refill_rate seconds or more after the
\* last call succeeds.
C14_BurstThenRefill ==
    [][AcquireReturns /\ tret'.tokens = 1 =>
          /\ now = 0 => (tret'.val = 1 <=> granted + Unit <= Capacity * Unit)
          /\ (now - last_refill) * RefillRate >= Unit => tret'.val = 1]_vars

\* C14 witness: capacity tokens went out at time 0, the bucket was found
\* empty, and after exactly 1/refill_rate seconds one more acquire(1)
\* succeeded.
C14_Witness ==
    /\ tret = Bool("t1", 1, TRUE)
    /\ granted = (Capacity + 1) * Unit
    /\ now * RefillRate = Unit
    /\ last_refill = now
    /\ tokens = 0

\* C15: at any time the tokens handed out since the bucket was created are at
\* most capacity + refill_rate * (time since creation), whatever the
\* interleaving of the callers.
C15_NoTokenFromNowhere ==
    granted <= Capacity * Unit + RefillRate * now

\* C15 witness: all that capacity and refill allow has been handed out, the
\* last of it to t2, while a blocking call of t1 is suspended.
C15_Witness ==
    /\ granted = Capacity * Unit + RefillRate * now
    /\ now > 0
    /\ tret.task = "t2"
    /\ tpc["t1"] = "sleeping"

\* C16: the balance goes down only in a step in which an acquire() returns
\* true, and then by what was asked for at most; a step in which
\* wait_for_tokens() returns or get_stats() reports leaves tokens and
\* last_refill as they were.
C16_OnlyAcquireDebits ==
    [][/\ tokens' < tokens =>
             /\ AcquireReturns /\ tret'.val = 1
             /\ tokens - tokens' <= tret'.tokens * Unit
       /\ tret'.kind \in {"wait", "stats"} /\ tret' # tret =>
             tokens' = tokens /\ last_refill' = last_refill]_vars

\* C16 witness: with the stored balance below the capacity and time gone by
\* since the last refill, wait_for_tokens() has returned the wait time that
\* follows from the refilled balance; the stored balance is not refilled.
C16_Witness ==
    /\ tret.kind = "wait" /\ tret.val > 0
    /\ tokens < CapUnits
    /\ now > last_refill
    /\ tret.val = tret.tokens * Unit - (tokens + (now - last_refill) * RefillRate)
(***************************************************************************)
(* Properties of RateLimiter                                               *)
(***************************************************************************)
\* C17: a non-blocking check() on a type whose global bucket, refilled, holds
\* fewer tokens than asked for returns false and leaves self.buckets as it
\* was: no bucket of a caller is created, refilled or debited.
C17_GlobalShortCircuit ==
    [][checks' # checks =>
          LET c == check_ret'
              t == c.bucket_type
          IN  (/\ t \in DOMAIN global_buckets
               /\ ~c.blocking
               /\ ~global_buckets[t].locked
               /\ LET b == global_buckets[t]
                      sum == b.tokens + (now - b.last_refill) * b.refill_rate
                  IN  (IF sum <= b.capacity THEN sum ELSE b.capacity) < c.tokens)
              => c.result = "False" /\ buckets' = buckets]_vars

\* C17 witness: check() for u2, who has no bucket of a type that has buckets,
\* was refused by the global bucket, and u2 still has no bucket.
C17_Witness ==
    /\ check_ret.result = "False"
    /\ check_ret.user_id = "u2"
    /\ check_ret.bucket_type \in DOMAIN global_buckets
    /\ global_buckets[check_ret.bucket_type].tokens < check_ret.tokens
    /\ check_ret.bucket_type \in DOMAIN buckets
    /\ "u2" \notin DOMAIN buckets[check_ret.bucket_type]

\* C18 as claimed: after a check() for a caller has returned true, the caller
\* has a bucket of that type, whatever the type.
C18_BucketOnFirstUse ==
    check_ret.user_id # None /\ check_ret.result = "True" =>
        /\ check_ret.bucket_type \in DOMAIN buckets
        /\ check_ret.user_id \in DOMAIN buckets[check_ret.bucket_type]
(***************************************************************************)
(* Properties of EmbeddingCache                                            *)
(***************************************************************************)
\* C19: the cache never holds more than max_size entries, each under a key
\* of its own and with a timestamp.
C19_SizeWithinMax ==
    /\ Len(cache) <= MaxSize
    /\ Cardinality(KeySet(cache)) = Len(cache)
    /\ DOMAIN timestamps = KeySet(cache)

\* C19 witness: the cache is full after more keys than max_size were set.
C19_Witness ==
    /\ Len(cache) = MaxSize
    /\ Len(recency) > MaxSize

\* The cached keys, least recently set or hit first, by the history.
ByRecency == SelectSeq(recency, LAMBDA k : k \in KeySet(cache))

\* A step in which set() has stored an entry.
SetStep ==
    /\ hits' = hits /\ misses' = misses /\ now' = now
    /\ cache' # <<>>
    /\ cache' # cache \/ timestamps' # timestamps \/ recency' # recency

\* C20: the entries are kept in the order of their last set or get hit. A
\* set of a new key into a full cache removes exactly the entry least
\* recently set or hit; any other set removes nothing; the entry set, and the
\* entry a get hits, becomes the last (most recently used) one.
C20_EvictsLeastRecentlyUsed ==
    [][/\ Keys(cache) = ByRecency
       /\ SetStep =>
             LET key == cache'[Len(cache')].key
             IN  /\ recency'[Len(recency')] = key
                 /\ KeySet(cache') =
                       IF Len(cache) >= MaxSize /\ key \notin KeySet(cache)
                       THEN (KeySet(cache) \ {Head(ByRecency)}) \cup {key}
                       ELSE KeySet(cache) \cup {key}
       /\ hits' = hits + 1 =>
             /\ KeySet(cache') = KeySet(cache)
             /\ cache'[Len(cache')].key = Hash(get_ret'.text)
             /\ recency'[Len(recency')] = Hash(get_ret'.text)]_vars

\* C20 witness: ka was set before kb and then hit by a get; the set of kc
\* into the full cache has removed kb.
C20_Witness ==
    /\ Keys(cache) = <<"ka", "kc">>
    /\ recency = <<"kb", "ka", "kc">>
    /\ hits = 1
    /\ Len(cache) = MaxSize

\* A step in which get() was called.
GetStep == hits' + misses' = hits + misses + 1

\* C21: a get of a key whose entry is present with an age of ttl or more
\* (the age counted from the entry's last set: only set writes a timestamp)
\* removes the entry and returns None; a get of an absent key returns None
\* and leaves it absent; a vector is returned only from an entry younger than
\* ttl; and an absent key becomes present only by a set.
C21_NeverReturnsExpired ==
    [][/\ GetStep =>
             LET key == Hash(get_ret'.text)
                 present == key \in KeySet(cache)
             IN  /\ present /\ now - timestamps[key] >= Ttl =>
                       /\ get_ret'.result = None
                       /\ key \notin KeySet(cache')
                       /\ key \notin DOMAIN timestamps'
                 /\ ~present =>
                       /\ get_ret'.result = None
                       /\ key \notin KeySet(cache')
                 /\ get_ret'.result # None =>
                       /\ present
                       /\ now - timestamps[key] < Ttl
                       /\ get_ret'.result = cache[Lookup(cache, key)].value
       /\ \A key \in KeySet(cache') :
             key \notin KeySet(cache) \/ timestamps'[key] # timestamps[key] =>
                 /\ SetStep
                 /\ timestamps'[key] = now]_vars

\* C21 witness: a get has found the entry of its text expired, removed it and
\* returned None.
C21_Witness ==
    /\ get_ret.expired
    /\ get_ret.result = None
    /\ get_ret.at >= Ttl
    /\ Hash(get_ret.text) \notin KeySet(cache)

\* stats().size before the get that returned get_ret: that get removed one
\* entry when it found it expired and none otherwise.
SizeBefore == Len(cache) + (IF get_ret.expired THEN 1 ELSE 0)

\* C22 as stated: the second of two gets of a text in immediate succession
\* returns what the first returned, and stats().size after the two calls is
\* what it was before them.
C22_GetTwiceKeepsSize ==
    [][GetStep /\ get_ret'.again =>
          /\ get_ret'.result = get_ret.result
          /\ Len(cache') = SizeBefore]_vars

\* C22 amended: the second of two gets of a text in immediate succession
\* returns what the first returned and leaves stats().size as the first left
\* it; a get changes the size only by removing the expired entry of its key.
C22_SecondGetChangesNothing ==
    [][GetStep =>
          /\ get_ret'.again =>
                /\ get_ret'.result = get_ret.result
                /\ Len(cache') = Len(cache)
                /\ KeySet(cache') = KeySet(cache)
          /\ Len(cache') = Len(cache) - (IF get_ret'.expired THEN 1 ELSE 0)
          /\ KeySet(cache') \in
                {KeySet(cache), KeySet(cache) \ {Hash(get_ret'.text)}}]_vars

\* C22 witness: two gets of a text in immediate succession have both
\* returned its vector.
C22_Witness ==
    /\ get_ret.again
    /\ get_ret.result # None
    /\ hits >= 2
(***************************************************************************)
(* Properties of VectorStoreService                                        *)
\* Another module_id used by this process has the key of m.
KeyShared(m) ==
    \E o \in Modules \ {m} :
        /\ ModuleKey(o) = ModuleKey(m)
        /\ o \in DOMAIN indices \/ o \in DOMAIN metadata \/ okDocs[o] # <<>>

(***************************************************************************)
\* C4: for a module without artifacts when the process started, after any
\* add_documents() calls (returned or raised) get_context_length() is the
\* number of documents passed to the calls that returned, the index has as
\* many rows as the metadata list has records, and row i and record i are the
\* vector and the record of the i-th such document. The module's files are
\* its own: no other module_id of this process has the same key.
C4_LockStep ==
    \A m \in Modules : fresh[m] /\ ~KeyShared(m) =>
        /\ GetContextLength(m) = Len(okDocs[m])
        /\ m \in DOMAIN indices =>
              /\ m \in DOMAIN metadata
              /\ Len(indices[m]) = Len(metadata[m])
              /\ Len(metadata[m]) = Len(okDocs[m])
              /\ \A i \in 1..Len(okDocs[m]) :
                    /\ indices[m][i] = Embed(okDocs[m][i])
                    /\ metadata[m][i] = Record(okDocs[m][i])

\* C4 witness: two calls with different documents returned and a later call
\* raised.
C4_Witness ==
    /\ fresh["m1"]
    /\ okDocs["m1"] = <<"b", "a">>
    /\ add_result = "raised"
    /\ "m1" \in DOMAIN indices
    /\ Len(indices["m1"]) = 2
    /\ GetContextLength("m1") = 2

\* A step in which the process is replaced by a fresh one.
RestartStep == restarts' = restarts + 1

\* C23: when every add_documents() call of a process has returned normally,
\* get_documents() of the namespace in the next process (empty in-memory
\* maps, same storage root) returns what it returned before the restart.
C23_RoundTrip ==
    [][RestartStep /\ add_result = "ok" =>
          GetDocuments("m1", NoFilters)' = GetDocuments("m1", NoFilters)]_vars

\* The rows and the records of a namespace: those in memory, or those a lazy
\* load gives; a namespace that cannot be loaded has none.
NamespaceRows(m) ==
    IF m \in DOMAIN indices THEN indices[m]
    ELSE IF LoadModule(m).ok THEN LoadModule(m).indices[m] ELSE <<>>
NamespaceRecords(m) ==
    IF m \in DOMAIN metadata THEN metadata[m]
    ELSE IF LoadModule(m).ok THEN LoadModule(m).metadata[m] ELSE <<>>

\* What the reads of a namespace return in the current state.
Observed(m) ==
    [get_documents |-> GetDocuments(m, NoFilters),
     get_context_length |-> GetContextLength(m),
     search |-> [query \in Texts |->
                    SearchResults(m, query, ProbeArgs, FALSE)]]

\* C24: an add_documents() call that raises because the embedding of a batch
\* failed leaves the rows and the records of the namespace, its artifacts,
\* and what search, get_documents and get_context_length return as they
\* were before the call, whatever number of batches was embedded before.
C24_FailedAddMutatesNothing ==
    [][add_exc' = "ProviderError" =>
          /\ NamespaceRows("m1")' = NamespaceRows("m1")
          /\ NamespaceRecords("m1")' = NamespaceRecords("m1")
          /\ disk_index' = disk_index
          /\ disk_meta' = disk_meta
          /\ Observed("m1")' = Observed("m1")]_vars

\* C24 witness: a call on a namespace holding a document has raised after
\* the embeddings of its first batch were computed.
C24_Witness ==
    /\ add_exc = "ProviderError"
    /\ failed_batch >= 2
    /\ "m1" \in DOMAIN indices
    /\ Len(indices["m1"]) = 1
    /\ GetContextLength("m1") = 1

\* The namespace is in memory with as many rows as records.
InLockStep(m) ==
    /\ m \in DOMAIN indices
    /\ m \in DOMAIN metadata
    /\ Len(indices[m]) = Len(metadata[m])

\* The documents among the neighbours I, in the order of I, that satisfy all
\* the filters, each with its distance from the query.
Survivors(m, query, I, metadata_filters) ==
    LET pos == SelectSeq([p \in 1..Len(I) |-> p],
                         LAMBDA p : /\ I[p] # 0
                                    /\ MatchesFilters(metadata[m][I[p]],
                                                      metadata_filters) = "True")
    IN  [j \in 1..Len(pos) |->
            Hit(metadata[m][I[pos[j]]], Dist(indices[m][I[pos[j]]], query))]

\* C25: for every top_k >= 0, overfetch_k and filter set, search() on a
\* namespace in lock-step returns the first top_k, nearest first, of the
\* documents that satisfy all the filters among the max(top_k, overfetch_k)
\* nearest neighbours.
C25_SearchReturnsFirstK ==
    InLockStep("m1") =>
        \A query \in Texts, args \in ArgSets :
            \A r \in SearchResults("m1", query, args, FALSE) :
                \E I \in IndexSearch(indices["m1"], query,
                                     Max(args.top_k, args.overfetch_k)) :
                    LET found == Survivors("m1", query, I, args.metadata_filters)
                    IN  r = Returned(SubSeq(found, 1, Min(args.top_k, Len(found))))

\* Some filter of the set names a key the document's metadata does not have.
LacksAKey(record, metadata_filters) ==
    \E i \in 1..Len(metadata_filters) :
        metadata_filters[i].key \notin DOMAIN record.metadata

\* C26: a stored document whose metadata lacks a key of the filter set is
\* rejected by the filter of search and is not returned by get_documents,
\* whatever the form of the expected value (scalar, list, tuple, set, None).
C26_MissingKeyRejects ==
    "m1" \in DOMAIN metadata =>
        \A metadata_filters \in FilterSets :
            \A i \in 1..Len(metadata["m1"]) :
                LET record == metadata["m1"][i]
                    got == GetDocuments("m1", metadata_filters)
                IN  LacksAKey(record, metadata_filters) =>
                        /\ MatchesFilters(record, metadata_filters) # "True"
                        /\ \A j \in 1..Len(got.docs) : got.docs[j] # record

\* What search's predicate says of each of the documents.
Verdicts(docs, metadata_filters) ==
    [i \in 1..Len(docs) |-> MatchesFilters(docs[i], metadata_filters)]

C28_SearchPropagatesProviderError ==
    "m1" \in DOMAIN indices =>
        \A query \in Texts, args \in ArgSets :
            \A r \in SearchResults("m1", query, args, TRUE) :
                r.raised = "ProviderError"

\* The artifacts of a namespace are not a readable pair of equal length:
\* one of them is missing or unreadable, or the two differ in length.
BadPair(m) ==
    /\ ~(disk_index[ModuleKey(m)] = Absent /\ disk_meta[ModuleKey(m)] = Absent)
    /\ \/ disk_index[ModuleKey(m)].st # "ok"
       \/ disk_meta[ModuleKey(m)].st # "ok"
       \/ Len(disk_index[ModuleKey(m)].rows) # Len(disk_meta[ModuleKey(m)].rows)

\* A step in which an add_documents() call raised or returned normally.
AddStep ==
    /\ restarts' = restarts
    /\ add_exc' # None \/ okDocs' # okDocs

\* C29: a namespace whose artifacts are unreadable or differ in length reads
\* as not existing (search and get_documents return nothing,
\* get_context_length returns 0), and an add_documents() call that starts
\* from those artifacts, or from what a lazy load made of them, and whose
\* embeddings succeed raises nothing and ends with as many rows as records.
C29_BadPairReadsAsAbsent ==
    /\ [](BadPair("m1") /\ "m1" \notin DOMAIN indices
                        /\ "m1" \notin DOMAIN metadata =>
            /\ GetDocuments("m1", NoFilters) = Returned(<<>>)
            /\ GetContextLength("m1") = 0
            /\ \A query \in Texts :
                  SearchResults("m1", query, ProbeArgs, FALSE) = {Returned(<<>>)})
    /\ [][BadPair("m1") /\ ~InLockStep("m1") /\ AddStep
             /\ add_exc' \notin {"ProviderError", "ValueError"} =>
            add_exc' = None /\ InLockStep("m1")']_vars

\* The task whose add_documents() call returned normally in this step.
Returns(t) ==
    /\ adding[t].pc = "embedding"
    /\ adding'[t].pc = "idle"
    /\ add_exc' = None

\* C30: with add_documents() calls of several tasks suspended at their
\* embedding calls and reads in between, wherever another task can run the
\* namespace has as many rows as records; a call that returns appends, in
\* that step, the vectors of its documents to the rows and their records to
\* the records, in the order of its input; no other step of a process
\* changes the rows or the records.
C30_AddsAreExclusive ==
    /\ []("m1" \in DOMAIN indices => InLockStep("m1"))
    /\ [][~RestartStep =>
            IF \E t \in Adders : Returns(t)
            THEN \A t \in Adders :
                    Returns(t) =>
                        /\ NamespaceRows("m1")' =
                              NamespaceRows("m1") \o EmbedAll(adding[t].documents)
                        /\ NamespaceRecords("m1")' =
                              NamespaceRecords("m1")
                                  \o RecordAll(adding[t].documents)
            ELSE /\ NamespaceRows("m1")' = NamespaceRows("m1")
                 /\ NamespaceRecords("m1")' = NamespaceRecords("m1")]_vars

\* C30 witness: a call of one task has returned and appended its documents
\* while a call of another task is suspended with a batch embedded.
C30_Witness ==
    /\ add_result = "ok"
    /\ adding["w1"].pc = "idle"
    /\ adding["w2"].pc = "embedding"
    /\ adding["w2"].embedded >= 1
    /\ "m1" \in DOMAIN indices
    /\ okDocs["m1"] # <<>>
    /\ Len(indices["m1"]) = Len(okDocs["m1"])

\* C31: an add_documents() call on a module, whether it returns or raises,
\* leaves the rows, the records and the artifacts of every other module, and
\* what search, get_documents and get_context_length return for it, as they
\* were before the call.
C31_NamespacesIsolated ==
    [][AddStep =>
          \A B \in Modules \ {add_module'} :
              /\ NamespaceRows(B)' = NamespaceRows(B)
              /\ NamespaceRecords(B)' = NamespaceRecords(B)
              /\ disk_index[ModuleKey(B)]' = disk_index[ModuleKey(B)]
              /\ disk_meta[ModuleKey(B)]' = disk_meta[ModuleKey(B)]
              /\ Observed(B)' = Observed(B)]_vars

\* C32: a get(text) that returns a vector returns the one passed to the most
\* recent set(text, .): the entry it reads was stored by a set() of the same
\* text, never by a set() of another text.
C32_HitIsForSameText ==
    [][GetStep /\ get_ret'.result # None =>
          LET entry == cache[Lookup(cache, Hash(get_ret'.text))]
          IN  /\ get_ret'.result = entry.value
              /\ entry.text = get_ret'.text]_vars

\* Every task of the batch launched last has ended and its node is marked
\* completed.
BatchOver ==
    \A name \in DOMAIN tasks : tasks[name] # "running" /\ name \in completed

\* C33: whenever the loop computes the ready frontier, and whenever nodes are
\* started, every node of the batch launched before has ended (its timeout
\* may have run out on the way) and is marked completed.
C33_BatchBarrier ==
    /\ [](pc = "loop" => BatchOver)
    /\ [][started' # started => BatchOver]_vars

\* C33 witness: a node of the second batch is running; the node it depends
\* on went past its timeout in the first batch, together with a node that
\* ended at once, and both are completed.
C33_Witness ==
    \E slow \in expired, quick \in completed \ expired, later \in DOMAIN tasks :
        /\ slow \in completed
        /\ tasks[later] = "running"
        /\ nodes[later].dependencies = {slow}
        /\ nodes[quick].dependencies = {}
        /\ nodes[slow].dependencies = {}

\* The state of a node in the run: PENDING (0), READY (1: not invoked, every
\* dependency completed), RUNNING (2: invoked, not yet marked completed),
\* COMPLETED or FAILED (3).
NodeRank(name) ==
    IF name \in completed THEN 3
    ELSE IF name \in started THEN 2
    ELSE IF nodes[name].dependencies \subseteq completed THEN 1
    ELSE 0
Failed(name) == name \in completed /\ name \in DOMAIN errors

\* A step of the loop that invokes executors.
LaunchStep == pc = "loop" /\ pc' \in {"gather", "crashed"}

\* C34: from the start of the loop on, no node goes back to an earlier state
\* and a node that is COMPLETED or FAILED stays so; the executors invoked in a
\* step are those of ready nodes that were not invoked before in the run, and
\* when the run returns every node's executor has been invoked.
C34_NodeStatesOnlyAdvance ==
    /\ [][pc # "building" =>
             /\ \A name \in DOMAIN nodes :
                   /\ NodeRank(name)' >= NodeRank(name)
                   /\ NodeRank(name) = 3 => Failed(name)' = Failed(name)
             /\ LaunchStep =>
                   /\ started' \ started # {}
                   /\ GetReadyAgents(completed) \cap started = {}
                   /\ DOMAIN tasks' \cap started = {}
                   /\ started' \subseteq started \cup GetReadyAgents(completed)
             /\ ~LaunchStep => started' = started]_vars
    /\ [](pc = "returned" => started = DOMAIN nodes /\ completed = DOMAIN nodes)

\* C34 witness: a run over three nodes has returned after more than one
\* batch, one node FAILED and the others COMPLETED.
C34_Witness ==
    /\ pc = "returned"
    /\ DOMAIN nodes = Names
    /\ \E name \in Names : nodes[name].dependencies # {}
    /\ \E name \in Names : Failed(name)
    /\ \E name \in Names : ~Failed(name)
    /\ \A name \in Names : NodeRank(name) = 3

\* C35: no task is suspended in an acquire(n, blocking=False) that it called
\* while another task held the bucket's lock.
C35_NonBlockingNeverWaits ==
    \A t \in Tasks :
        ~(/\ tpc[t] = "waiting"
          /\ targs[t].op = "acquire"
          /\ ~targs[t].blocking
          /\ lock \notin {t, "free"})

\* The balance of a bucket after the refill every acquire() starts with.
Refilled(b) ==
    Min(b.capacity, b.tokens + (now - b.last_refill) * b.refill_rate)

\* The caller's bucket a check() consults: the one it finds, or the one it
\* creates.
UserBucket(bucket_type, user_id) ==
    IF user_id \in DOMAIN buckets[bucket_type]
    THEN buckets[bucket_type][user_id]
    ELSE TokenBucket(DefaultCapacity, DefaultRefillRate, now)

\* C36: a check() that returns true has taken the requested tokens from the
\* global bucket of the type and from the caller's bucket, where they exist;
\* a check() that returns false has taken no token from either, whichever
\* bucket refused.
C36_CheckAllOrNothing ==
    [][checks' = checks + 1 /\ check_ret'.result \in {"True", "False"} =>
          LET c == check_ret'
              taken == IF c.result = "True" THEN c.tokens ELSE 0
          IN  /\ c.bucket_type \in DOMAIN global_buckets =>
                    global_buckets'[c.bucket_type].tokens =
                        Refilled(global_buckets[c.bucket_type]) - taken
              /\ c.bucket_type \in DOMAIN buckets /\ c.user_id # None
                    /\ c.user_id \in DOMAIN buckets'[c.bucket_type] =>
                    buckets'[c.bucket_type][c.user_id].tokens =
                        Refilled(UserBucket(c.bucket_type, c.user_id)) - taken]_vars

\* C37: when add_documents() returns normally, the index file and the
\* metadata file of the namespace hold every row and every record of the
\* namespace (a failed write of either makes the call raise instead), and at
\* no time do the two files of a namespace differ in length.
C37_ReturnMeansPersisted ==
    /\ [][AddStep /\ add_result' = "ok" =>
             LET m == add_module'
                 k == ModuleKey(m)
             IN  /\ disk_index'[k] = File(indices'[m])
                 /\ disk_meta'[k] = File(JsonRows(metadata'[m]))]_vars
    /\ [](\A k \in ModuleKeys :
             disk_index[k].st = "ok" /\ disk_meta[k].st = "ok" =>
                 Len(disk_index[k].rows) = Len(disk_meta[k].rows))

\* The step in which an embedding request returns or raises.
EmbeddingEnds == emb_ret.status = "pending" /\ emb_ret'.status # "pending"

\* The provider answered that the deployment does not exist.
DeploymentMissing(call) ==
    /\ call.model = EmbeddingDeployment
    /\ ~call.response.ok
    /\ call.response.message[1] = "404"

\* C38: of the provider calls of an embedding request, single or batch, a
\* call that fails because the configured deployment is not found is
\* followed by exactly one more call, on the fixed fallback model, whose
\* outcome ends the request; a call that fails in any other way is the last
\* call of the request, and the request raises that failure.
C38_FallbackExactlyOnce ==
    [][EmbeddingEnds =>
          LET calls == emb_calls'
          IN  \A i \in DOMAIN calls :
                  ~calls[i].response.ok =>
                      IF DeploymentMissing(calls[i])
                      THEN /\ Len(calls) = i + 1
                           /\ calls[i + 1].model = FallbackModel
                           /\ calls[i + 1].response.ok
                                 => emb_ret'.status = "returned"
                           /\ ~calls[i + 1].response.ok
                                 => emb_ret' = EmbRaised(calls[i + 1].response.message)
                      ELSE /\ Len(calls) = i
                           /\ emb_ret' = EmbRaised(calls[i].response.message)]_vars
====
